---- MODULE Spec2Model ----
(***************************************************************************)
(* HPMS process scheduler (src/HPMS/Shared_Memory.c, second translation    *)
(* unit starting at line 102): the four scheduling algorithms              *)
(* priority_scheduling, fcfs_scheduling, sjf_scheduling and                *)
(* round_robin_scheduling, and calculate_metrics.                          *)
(*                                                                         *)
(* One behaviour is one scenario block of run_scenario / main: the registry *)
(* is copied into p1..p4 and the four algorithms are called on them in     *)
(* turn.  Arrays are functions over 0..n-1 as in the C code.  Display-only *)
(* fields (name, medical_class) are left out of the Process record.        *)
(*                                                                         *)
(* The synchronisation programs of the repository are further state        *)
(* machines over variables of their own, told apart by `program`: the      *)
(* two-mutex doctor / pharmacy programs and the doctor / nurse record      *)
(* programs (thread scripts over the mutexes), the process-cleanup loop    *)
(* with its forked children, and the semaphore-guarded connection pool.    *)
(***************************************************************************)
EXTENDS Integers, Sequences, FiniteSets, TLC

\* ---------------------------------------------------------------- constants
MAX_PROCESSES == 20

TIME_QUANTUM == 4

\* Rows of priority_scheduling's events array: int events[200][3].
EventRows == 200

\* if (i % 10 == 0) of the process-cleanup loop.
CleanupEvery == 10

\* The handle count main of the semaphore solution passes to
\* WaitForMultipleObjects.
TOTAL_REQUESTS == 100

\* The most handles WaitForMultipleObjects accepts (winnt.h); with more the
\* call fails at once with WAIT_FAILED.
MAXIMUM_WAIT_OBJECTS == 64

\* ------------------------------------------------------------------- bounds
\* Largest generated registry (the shipped scenarios are added as they are).
MaxJobs == 3

\* Generated jobs: arrival at 0 or 1; a burst of one tick or of one tick more
\* than the quantum; an emergency (1) or a lower (2) priority.  The shipped
\* scenarios and the worked example bring the later arrivals.
ArrivalChoices == 0..1

BurstChoices == {1, TIME_QUANTUM + 1}

PriorityChoices == {1, 2}

\* The idle loops are followed up to this clock: a job that can never become
\* eligible keeps them ticking for ever.
MaxClock == 30

\* Largest registry of the direct calls with unchecked jobs.
MaxWideJobs == 2

\* Patients of the process-cleanup loop (MAX_PATIENTS, 100 in the source):
\* enough for the cleanup at every tenth patient to happen and to be passed.
MaxPatients == 12

\* Registration threads of the semaphore solution (the loop bound
\* TOTAL_REQUESTS, 100 in the source) and slots of the connection pool
\* (MAX_DB_CONNECTIONS, 20 in the source): more threads than slots.
MaxRequests == 4
MaxConnections == 2

VARIABLES
    processes,         \* the caller's registry (processes[] / processes_normal[])
    p,                 \* the caller's arrays p1..p4, by the algorithm they are for
    alg,               \* which of the four functions is called
    build,             \* frame layout of round_robin_scheduling in the build
    n,                 \* number of jobs passed in
    proc,              \* the caller's array (proc[] parameter)
    temp,              \* the callee's working copy
    current_time,
    completed,
    context_switches,
    is_running,        \* priority_scheduling: index running, -1 if none
    events,            \* priority_scheduling: rows <<time, pid, type>>
    is_completed,      \* sjf_scheduling
    fcfs_i,            \* fcfs_scheduling: loop index i
    queue,             \* round_robin_scheduling: queue[] and the words after it
    in_queue,          \* round_robin_scheduling: in_queue[]
    front,
    rear,
    executed,          \* history: time units each job has been run
    short_slice,       \* history: round-robin jobs that had a slice < quantum
    m,                 \* the Metrics returned
    pc,                \* "call", "loop", "done"
    \* the thread programs (deadlock, lock ordering, race condition, mutex)
    program,           \* which of the programs runs
    platform,          \* "posix" (pthread) or "win32" source of it
    thread,            \* per thread: the statement it is at, 0 once returned
    exit_code,         \* per thread: the value it returned, -1 before that
    patient_record_mutex,        \* "free" or the thread that owns it
    medication_inventory_mutex,  \* "free" or the thread that owns it
    patient,           \* the shared PatientRecord
    medication,        \* the shared MedicationInventory
    local_allergy,     \* doctor_thread's local copy of the allergy
    \* main of the process-cleanup and of the semaphore solution
    main_pc,           \* where main is
    loop_i,            \* the index i of main's spawning loop
    \* the process-cleanup solution
    active_children,
    completed_registrations,
    running_children,  \* children forked in the loop that have not exited
    zombies,           \* children of the loop that have exited, not yet reaped
    patients_spawned,  \* history: forks of the loop that succeeded
    critical_child,    \* the child forked for CRITICAL_PATIENT
    \* the semaphore solution
    db_connection_semaphore,  \* the count of the semaphore
    registration,      \* per patient_registration thread: where it is
    acquired,          \* history: per thread, waits that returned a slot
    released           \* history: per thread, ReleaseSemaphore calls

schedulerVars ==
    <<processes, p, alg, build, n, proc, temp, current_time, completed,
      context_switches, is_running, events, is_completed, fcfs_i,
      queue, in_queue, front, rear, executed, short_slice, m, pc>>

threadVars ==
    <<program, platform, thread, exit_code, patient_record_mutex,
      medication_inventory_mutex, patient, medication, local_allergy>>

processVars ==
    <<main_pc, loop_i, active_children, completed_registrations,
      running_children, zombies, patients_spawned, critical_child>>

semaphoreVars == <<db_connection_semaphore, registration, acquired, released>>

vars == <<schedulerVars, threadVars, processVars, semaphoreVars>>

\* ------------------------------------------------------------------ records
\* A Process initialiser {pid, name, class, priority, arrival, burst,
\* remaining = burst, 0, 0, 0, -1, -1} as written in the init_* functions.
NewProcess(pid, priority, arrival, burst) ==
    [pid |-> pid, priority |-> priority, arrival_time |-> arrival,
     burst_time |-> burst, remaining_time |-> burst, completion_time |-> 0,
     turnaround_time |-> 0, waiting_time |-> 0, response_time |-> -1,
     start_time |-> -1]

\* A registry from a sequence of <<priority, arrival, burst>> rows.
MakeRegistry(rows) ==
    [k \in 0..(Len(rows) - 1) |->
        NewProcess(k, rows[k + 1][1], rows[k + 1][2], rows[k + 1][3])]

EmergencyScenario ==
    MakeRegistry(<< <<5, 0, 30>>, <<1, 5, 3>>, <<1, 7, 3>>, <<1, 9, 3>>,
                    <<1, 11, 3>>, <<1, 13, 3>>, <<1, 15, 3>>, <<2, 8, 10>>,
                    <<3, 12, 4>>, <<4, 15, 8>>, <<2, 18, 9>>, <<5, 20, 25>> >>)

NormalScenario ==
    MakeRegistry(<< <<5, 0, 20>>, <<3, 3, 4>>, <<2, 6, 8>>, <<3, 10, 4>>,
                    <<1, 12, 2>>, <<2, 15, 7>>, <<4, 18, 6>>, <<3, 22, 4>> >>)

BestScenario ==
    MakeRegistry(<< <<3, 0, 5>>, <<2, 8, 10>>, <<4, 15, 8>>, <<1, 20, 3>>,
                    <<5, 25, 12>> >>)

\* The worked example of the specification (section 8).
ExampleRegistry ==
    MakeRegistry(<< <<5, 0, 5>>, <<1, 2, 2>>, <<3, 4, 3>> >>)

\* Generated valid jobs: priority, arrival >= 0, burst > 0.
JobChoices ==
    {<<prio, a, b>> : prio \in PriorityChoices, a \in ArrivalChoices,
                      b \in BurstChoices}

SeqsOfLen(S, k) == [1..k -> S]

GeneratedRegistries ==
    {MakeRegistry(rows) : rows \in UNION {SeqsOfLen(JobChoices, k) : k \in 0..MaxJobs}}

Registries ==
    GeneratedRegistries
        \cup {EmergencyScenario, NormalScenario, BestScenario, ExampleRegistry}

Size(reg) == Cardinality(DOMAIN reg)

\* The value calculate_metrics starts emergency_response_min from.
NoEmergencyYet == 999

\* Jobs of the direct calls: the invalid ones (negative arrival, zero or
\* negative burst) and two valid ones.
WideJobChoices ==
    {<<1, -1, 1>>, <<1, 1, 0>>, <<1, 0, 0>>, <<2, 0, -1>>,
     <<1, 0, 1>>, <<2, 1, TIME_QUANTUM + 1>>}

\* Valid jobs with bursts around NoEmergencyYet, which make the response_time
\* of the job behind them fall below, on and above that value.
LongJobChoices ==
    {<<prio, a, b>> : prio \in PriorityChoices, a \in {0, 1},
                      b \in {1, NoEmergencyYet - 1, NoEmergencyYet,
                             NoEmergencyYet + 1}}

LongRegistries ==
    {MakeRegistry(rows) :
        rows \in UNION {SeqsOfLen(LongJobChoices, k) : k \in 1..MaxWideJobs}}

\* One job more than the arrays hold.
OversizeRegistry ==
    MakeRegistry([k \in 1..(MAX_PROCESSES + 1) |-> <<1, 0, 1>>])

WideRegistries ==
    {MakeRegistry(rows) :
        rows \in UNION {SeqsOfLen(WideJobChoices, k) : k \in 1..MaxWideJobs}}
        \cup {OversizeRegistry}

Algorithms == {"priority", "fcfs", "sjf", "rr"}

\* Frame layouts of round_robin_scheduling.  queue[rear++] is not bounds
\* checked, so an access at an index >= MAX_PROCESSES hits whatever follows
\* queue[] in the frame the build laid out:
\*   "apart"             the words after queue[] hold no scheduler state
\*   "adjacent"          in_queue[] follows queue[]: queue[MAX_PROCESSES + k]
\*                       is in_queue[k]
\*   "adjacent_reorder"  as "adjacent", and the compiler stores in_queue[i]
\*                       before queue[rear] (the arrays cannot alias in a
\*                       defined program, so it may)
\* The layout shows only at the first such access; build is "unset" until then.
Builds == {"apart", "adjacent", "adjacent_reorder"}

\* Words modelled from the start of queue[]: the array and as many after it.
QueueWords == 2 * MAX_PROCESSES

NoMetrics ==
    [avg_response_time |-> <<0, 1>>, avg_turnaround_time |-> <<0, 1>>,
     avg_waiting_time |-> <<0, 1>>, emergency_response_min |-> 0,
     emergency_response_max |-> 0, cpu_utilization |-> <<0, 1>>,
     context_switches |-> 0, throughput |-> <<0, 1>>, total_time |-> 0]

\* --------------------------------------------------------------------- Init
\* The array the caller passes to algorithm a: p1 to priority_scheduling, p2
\* to fcfs_scheduling, p3 to sjf_scheduling, p4 to round_robin_scheduling.
CallTargetShared(a) == "priority"

CallTarget(a) == a

\* The state at the call of algorithm a on registry reg, p1..p4 fresh copies.
AtCall(a, reg) ==
    /\ processes = reg
    /\ p = [k \in Algorithms |-> reg]
    /\ alg = a
    /\ build = "unset"
    /\ proc = p[CallTarget(a)]
    /\ n = Size(reg)
    /\ temp = proc
    /\ current_time = 0
    /\ completed = 0
    /\ context_switches = 0
    /\ is_running = -1
    /\ events = << >>
    /\ is_completed = [k \in 0..(n - 1) |-> 0]
    /\ fcfs_i = 0
    /\ queue = [w \in 0..(QueueWords - 1) |-> 0]
    /\ in_queue = [k \in 0..(MAX_PROCESSES - 1) |-> 0]
    /\ front = 0
    /\ rear = 0
    /\ executed = [k \in 0..(n - 1) |-> 0]
    /\ short_slice = {}
    /\ m = NoMetrics
    /\ pc = "call"

NoPatient == [diagnosis |-> "", allergy |-> "", prescription |-> ""]

\* MedicationInventory medication = {"Nitroglycerin", 50}.
InitialStock == 50

\* A program that is not one of the four thread programs has none of their
\* threads and shared objects.
NoThreads ==
    /\ platform = "posix"
    /\ thread = << >>
    /\ exit_code = << >>
    /\ patient_record_mutex = "free"
    /\ medication_inventory_mutex = "free"
    /\ patient = NoPatient
    /\ medication = [stock_available |-> 0]
    /\ local_allergy = ""

\* No children are forked outside the process-cleanup solution.
NoChildren ==
    /\ active_children = 0
    /\ completed_registrations = 0
    /\ running_children = 0
    /\ zombies = 0
    /\ patients_spawned = 0
    /\ critical_child = "none"

\* No connection pool exists outside the semaphore solution.
NoPool ==
    /\ db_connection_semaphore = 0
    /\ registration = << >>
    /\ acquired = << >>
    /\ released = << >>

\* main of the other programs is not followed statement by statement.
NoMain == main_pc = "none" /\ loop_i = 0

\* The scheduler program on its own.
OnlyScheduler ==
    /\ program = "scheduler"
    /\ NoThreads
    /\ NoMain
    /\ NoChildren
    /\ NoPool

\* The caller has built a registry, copied it into p1..p4 and is about to call
\* the first algorithm.
Init ==
    /\ \E reg \in Registries : AtCall("priority", reg)
    /\ OnlyScheduler

\* A direct call of fcfs_scheduling on valid jobs with long bursts.
LongInit ==
    /\ \E reg \in LongRegistries : AtCall("fcfs", reg)
    /\ OnlyScheduler

\* A direct call of any one algorithm on a registry nobody has checked.
WideInit ==
    /\ \E a \in Algorithms : \E reg \in WideRegistries : AtCall(a, reg)
    /\ OnlyScheduler

\* ------------------------------------------------------- calculate_metrics
RECURSIVE MetricsLoop(_, _, _, _)
MetricsLoop(tmp, cnt, i, acc) ==
    IF i >= cnt THEN acc
    ELSE IF tmp[i].completion_time > 0
         THEN LET r == tmp[i].response_time
                  emin == IF tmp[i].priority = 1 /\ r < acc.emin
                          THEN r ELSE acc.emin
                  emax == IF tmp[i].priority = 1 /\ r > acc.emax
                          THEN r ELSE acc.emax
              IN MetricsLoop(tmp, cnt, i + 1,
                    [sum_response |-> acc.sum_response + r,
                     sum_turnaround |-> acc.sum_turnaround + tmp[i].turnaround_time,
                     sum_waiting |-> acc.sum_waiting + tmp[i].waiting_time,
                     total_burst |-> acc.total_burst + tmp[i].burst_time,
                     completed |-> acc.completed + 1,
                     emin |-> emin, emax |-> emax])
         ELSE MetricsLoop(tmp, cnt, i + 1, acc)

\* Mutant of calculate_metrics: the quotients are taken without the
\* completed > 0 and total_time > 0 guards.
calculate_metrics_unguarded(tmp, cnt, total_time) ==
    LET acc == MetricsLoop(tmp, cnt, 0,
                   [sum_response |-> 0, sum_turnaround |-> 0, sum_waiting |-> 0,
                    total_burst |-> 0, completed |-> 0,
                    emin |-> NoEmergencyYet, emax |-> 0])
    IN [avg_response_time |-> <<acc.sum_response, acc.completed>>,
        avg_turnaround_time |-> <<acc.sum_turnaround, acc.completed>>,
        avg_waiting_time |-> <<acc.sum_waiting, acc.completed>>,
        emergency_response_min |->
            IF acc.emin = NoEmergencyYet THEN 0 ELSE acc.emin,
        emergency_response_max |-> acc.emax,
        cpu_utilization |-> <<acc.total_burst * 100, total_time>>,
        context_switches |-> 0,
        throughput |-> <<acc.completed, total_time>>,
        total_time |-> total_time]

\* Float quotients are kept as <<numerator, denominator>>.
calculate_metrics(tmp, cnt, total_time) ==
    LET acc == MetricsLoop(tmp, cnt, 0,
                   [sum_response |-> 0, sum_turnaround |-> 0, sum_waiting |-> 0,
                    total_burst |-> 0, completed |-> 0, emin |-> NoEmergencyYet, emax |-> 0])
    IN [avg_response_time |->
            IF acc.completed > 0 THEN <<acc.sum_response, acc.completed>> ELSE <<0, 1>>,
        avg_turnaround_time |->
            IF acc.completed > 0 THEN <<acc.sum_turnaround, acc.completed>> ELSE <<0, 1>>,
        avg_waiting_time |->
            IF acc.completed > 0 THEN <<acc.sum_waiting, acc.completed>> ELSE <<0, 1>>,
        emergency_response_min |-> IF acc.emin = NoEmergencyYet THEN 0 ELSE acc.emin,
        emergency_response_max |-> acc.emax,
        cpu_utilization |->
            IF total_time > 0 THEN <<acc.total_burst * 100, total_time>> ELSE <<0, 1>>,
        context_switches |-> 0,
        throughput |->
            IF total_time > 0 THEN <<acc.completed, total_time>> ELSE <<0, 1>>,
        total_time |-> total_time]

\* ------------------------------------------------------------ shared steps
\* Mutant of MarkStart: the start_time == -1 test is dropped, so every
\* dispatch rewrites start_time and response_time.
MarkStartAlways(tmp, i, now) ==
    [tmp EXCEPT ![i].start_time = now,
                ![i].response_time = now - tmp[i].arrival_time]

\* if (start_time == -1) { start_time = now; response_time = now - arrival; }
\* (priority_scheduling; round_robin_scheduling repeats it at 518-521).
MarkStart(tmp, i, now) ==
    IF tmp[i].start_time = -1
    THEN [tmp EXCEPT ![i].start_time = now,
                     ![i].response_time = now - tmp[i].arrival_time]
    ELSE tmp

\* Mutant of Complete: completion_time is stamped one tick early.
CompleteEarly(tmp, i, now) ==
    [tmp EXCEPT ![i].completion_time = now - 1,
                ![i].turnaround_time = now - tmp[i].arrival_time,
                ![i].waiting_time =
                    (now - tmp[i].arrival_time) - tmp[i].burst_time]

\* completion_time, turnaround_time and waiting_time of a job that has just
\* run out of work (priority_scheduling; round robin repeats it at 539-541).
Complete(tmp, i, now) ==
    [tmp EXCEPT ![i].completion_time = now,
                ![i].turnaround_time = now - tmp[i].arrival_time,
                ![i].waiting_time =
                    (now - tmp[i].arrival_time) - tmp[i].burst_time]

\* Mutant of RunToCompletion: the job is started at its arrival_time, whatever
\* the clock says, so it may overlap the job before it.
RunFromArrival(tmp, i, start) ==
    LET now == start + tmp[i].burst_time
    IN [tmp EXCEPT ![i].start_time = tmp[i].arrival_time,
                   ![i].response_time = 0,
                   ![i].completion_time = now,
                   ![i].turnaround_time = now - tmp[i].arrival_time,
                   ![i].waiting_time =
                       (now - tmp[i].arrival_time) - tmp[i].burst_time,
                   ![i].remaining_time = 0]

\* A non-preemptive dispatch at time start: the job runs for its whole burst
\* (fcfs_scheduling; sjf_scheduling repeats it at 467-473).
RunToCompletion(tmp, i, start) ==
    LET now == start + tmp[i].burst_time
    IN [tmp EXCEPT ![i].start_time = start,
                   ![i].response_time = start - tmp[i].arrival_time,
                   ![i].completion_time = now,
                   ![i].turnaround_time = now - tmp[i].arrival_time,
                   ![i].waiting_time =
                       (now - tmp[i].arrival_time) - tmp[i].burst_time,
                   ![i].remaining_time = 0]

\* Mutant of LogEvent: event_count is not advanced past the first row, so
\* each later event lands on the row of the one before it.
LogEventOverwrite(ev, time, pid, type) ==
    IF ev = << >> THEN << <<time, pid, type>> >>
    ELSE [ev EXCEPT ![Len(ev)] = <<time, pid, type>>]

\* events[event_count] = {time, pid, type}; event_count++.
LogEvent(ev, time, pid, type) == Append(ev, <<time, pid, type>>)

\* The slice of one round-robin dispatch.
ExecTime(remaining) ==
    IF remaining > TIME_QUANTUM THEN TIME_QUANTUM ELSE remaining

\* ------------------------------------------------------------ function entry
\* queue[r] = j; in_queue[j] = 1 on the ready-queue state st =
\* [queue, in_queue, rear] in a build laid out as b; rear is advanced.
Enqueue(st, b, j) ==
    LET r == st.rear
        oob == r >= MAX_PROCESSES /\ b \in {"adjacent", "adjacent_reorder"}
        k == r - MAX_PROCESSES
    IN [queue |-> IF oob THEN st.queue ELSE [st.queue EXCEPT ![r] = j],
        in_queue |->
            IF ~oob THEN [st.in_queue EXCEPT ![j] = 1]
            ELSE IF b = "adjacent_reorder"
                 THEN [[st.in_queue EXCEPT ![j] = 1] EXCEPT ![k] = j]
                 ELSE [[st.in_queue EXCEPT ![k] = j] EXCEPT ![j] = 1],
        rear |-> r + 1]

\* Round robin's first loop: enqueue every job with arrival_time = 0.
RECURSIVE InitialEnqueue(_, _)
InitialEnqueue(i, st) ==
    IF i >= n THEN st
    ELSE IF temp[i].arrival_time = 0
         THEN InitialEnqueue(i + 1, Enqueue(st, build, i))
         ELSE InitialEnqueue(i + 1, st)

\* temp[i] = proc[i] and the initialisation of the locals.
\* With n > MAX_PROCESSES the copy writes past temp[]: what the call does
\* from there on is undefined and is not followed.
Invoke ==
    /\ pc = "call"
    /\ temp' = proc
    /\ IF n > MAX_PROCESSES
       THEN pc' = "undefined" /\ UNCHANGED <<queue, in_queue, rear>>
       ELSE /\ pc' = "loop"
            /\ IF alg = "rr"
               THEN LET st == InitialEnqueue(0, [queue |-> queue,
                                                 in_queue |-> in_queue,
                                                 rear |-> 0])
                    IN /\ queue' = st.queue
                       /\ in_queue' = st.in_queue
                       /\ rear' = st.rear
               ELSE UNCHANGED <<queue, in_queue, rear>>
    /\ UNCHANGED <<threadVars, processVars, semaphoreVars>>
    /\ UNCHANGED <<processes, p, alg, build, n, proc, current_time, completed,
                   context_switches, is_running, events, is_completed, fcfs_i,
                   front, executed, m, short_slice>>

\* -------------------------------------------------------- priority_scheduling
\* Mutant of SelectPriority: <= in place of <, so the last index wins a tie.
RECURSIVE SelectPriorityLastWins(_, _, _)
SelectPriorityLastWins(i, next, highest_priority) ==
    IF i >= n THEN next
    ELSE IF /\ temp[i].arrival_time <= current_time
            /\ temp[i].remaining_time > 0
            /\ temp[i].priority <= highest_priority
         THEN SelectPriorityLastWins(i + 1, i, temp[i].priority)
         ELSE SelectPriorityLastWins(i + 1, next, highest_priority)

\* Mutant of SelectPriority: the priority comparison is dropped and the scan
\* stops at the first arrived job with work left, as first come first served.
RECURSIVE SelectPriorityIgnored(_, _, _)
SelectPriorityIgnored(i, next, highest_priority) ==
    IF i >= n THEN next
    ELSE IF /\ temp[i].arrival_time <= current_time
            /\ temp[i].remaining_time > 0
            /\ next = -1
         THEN SelectPriorityIgnored(i + 1, i, temp[i].priority)
         ELSE SelectPriorityIgnored(i + 1, next, highest_priority)

\* Mutant of SelectPriority: the scan ranks the jobs by work left, longest
\* first, in place of the priority number, so the choice can change at a tick
\* at which no job arrives.
RECURSIVE SelectPriorityLongestFirst(_, _, _)
SelectPriorityLongestFirst(i, next, highest_priority) ==
    IF i >= n THEN next
    ELSE IF /\ temp[i].arrival_time <= current_time
            /\ temp[i].remaining_time > 0
            /\ 999 - temp[i].remaining_time < highest_priority
         THEN SelectPriorityLongestFirst(i + 1, i, 999 - temp[i].remaining_time)
         ELSE SelectPriorityLongestFirst(i + 1, next, highest_priority)

\* The selection scan: first index with the smallest priority number among
\* the arrived jobs that still have work.
RECURSIVE SelectPriority(_, _, _)
SelectPriority(i, next, highest_priority) ==
    IF i >= n THEN next
    ELSE IF /\ temp[i].arrival_time <= current_time
            /\ temp[i].remaining_time > 0
            /\ temp[i].priority < highest_priority
         THEN SelectPriority(i + 1, i, temp[i].priority)
         ELSE SelectPriority(i + 1, next, highest_priority)

PriorityIdle ==
    /\ pc = "loop" /\ alg = "priority"
    /\ completed < n
    /\ SelectPriority(0, -1, 999) = -1
    /\ current_time < MaxClock
    /\ current_time' = current_time + 1
    /\ UNCHANGED <<threadVars, processVars, semaphoreVars>>
    /\ UNCHANGED <<processes, p, alg, build, n, proc, temp, completed, context_switches,
                   is_running, events, is_completed, fcfs_i, queue, in_queue,
                   front, rear, executed, m, pc, short_slice>>

PriorityTick ==
    /\ pc = "loop" /\ alg = "priority"
    /\ completed < n
    /\ LET next == SelectPriority(0, -1, 999)
           switch == is_running # next
           preempt == switch /\ is_running # -1
                             /\ temp[is_running].remaining_time > 0
           ev1 == IF preempt
                  THEN LogEvent(events, current_time, is_running, 1)
                  ELSE events
           t1 == IF switch THEN MarkStart(temp, next, current_time) ELSE temp
           ev2 == IF switch THEN LogEvent(ev1, current_time, next, 0) ELSE ev1
           t2 == [t1 EXCEPT ![next].remaining_time = @ - 1]
           now == current_time + 1
           finished == t2[next].remaining_time = 0
       IN /\ next # -1
          /\ temp' = IF finished THEN Complete(t2, next, now) ELSE t2
          /\ events' = IF finished THEN LogEvent(ev2, now, next, 2) ELSE ev2
          /\ context_switches' = IF switch THEN context_switches + 1
                                           ELSE context_switches
          /\ current_time' = now
          /\ completed' = IF finished THEN completed + 1 ELSE completed
          /\ is_running' = IF finished THEN -1 ELSE next
          /\ executed' = [executed EXCEPT ![next] = @ + 1]
    /\ UNCHANGED <<threadVars, processVars, semaphoreVars>>
    /\ UNCHANGED <<processes, p, alg, build, n, proc, is_completed, fcfs_i, queue, in_queue,
                   front, rear, m, pc, short_slice>>

\* ------------------------------------------------------------ fcfs_scheduling
FcfsStep ==
    /\ pc = "loop" /\ alg = "fcfs"
    /\ fcfs_i < n
    /\ LET i == fcfs_i
           start == IF current_time < temp[i].arrival_time
                    THEN temp[i].arrival_time ELSE current_time
           now == start + temp[i].burst_time
       IN /\ temp' = RunToCompletion(temp, i, start)
          /\ current_time' = now
          /\ executed' = [executed EXCEPT ![i] = @ + (now - start)]
    /\ context_switches' = context_switches + 1
    /\ fcfs_i' = fcfs_i + 1
    /\ UNCHANGED <<threadVars, processVars, semaphoreVars>>
    /\ UNCHANGED <<processes, p, alg, build, n, proc, completed, is_running, events,
                   is_completed, queue, in_queue, front, rear, m, pc,
                   short_slice>>

\* ------------------------------------------------------------- sjf_scheduling
\* Mutant of SelectShortest: <= in place of <, so the last index wins a tie.
RECURSIVE SelectShortestLastWins(_, _, _)
SelectShortestLastWins(i, next, shortest) ==
    IF i >= n THEN next
    ELSE IF /\ temp[i].arrival_time <= current_time
            /\ is_completed[i] = 0
            /\ temp[i].burst_time <= shortest
         THEN SelectShortestLastWins(i + 1, i, temp[i].burst_time)
         ELSE SelectShortestLastWins(i + 1, next, shortest)

RECURSIVE SelectShortest(_, _, _)
SelectShortest(i, next, shortest) ==
    IF i >= n THEN next
    ELSE IF /\ temp[i].arrival_time <= current_time
            /\ is_completed[i] = 0
            /\ temp[i].burst_time < shortest
         THEN SelectShortest(i + 1, i, temp[i].burst_time)
         ELSE SelectShortest(i + 1, next, shortest)

SjfIdle ==
    /\ pc = "loop" /\ alg = "sjf"
    /\ completed < n
    /\ SelectShortest(0, -1, 999999) = -1
    /\ current_time < MaxClock
    /\ current_time' = current_time + 1
    /\ UNCHANGED <<threadVars, processVars, semaphoreVars>>
    /\ UNCHANGED <<processes, p, alg, build, n, proc, temp, completed, context_switches,
                   is_running, events, is_completed, fcfs_i, queue, in_queue,
                   front, rear, executed, m, pc, short_slice>>

SjfDispatch ==
    /\ pc = "loop" /\ alg = "sjf"
    /\ completed < n
    /\ LET next == SelectShortest(0, -1, 999999)
           now == current_time + temp[next].burst_time
       IN /\ next # -1
          /\ temp' = RunToCompletion(temp, next, current_time)
          /\ current_time' = now
          /\ is_completed' = [is_completed EXCEPT ![next] = 1]
          /\ executed' = [executed EXCEPT ![next] = @ + (now - current_time)]
    /\ completed' = completed + 1
    /\ context_switches' = context_switches + 1
    /\ UNCHANGED <<threadVars, processVars, semaphoreVars>>
    /\ UNCHANGED <<processes, p, alg, build, n, proc, is_running, events, fcfs_i, queue,
                   in_queue, front, rear, m, pc, short_slice>>

\* ----------------------------------------------------- round_robin_scheduling
\* queue[k] as the build b reads it.
QueueAt(b, k) ==
    IF k >= MAX_PROCESSES /\ b \in {"adjacent", "adjacent_reorder"}
    THEN in_queue[k - MAX_PROCESSES]
    ELSE queue[k]

\* The arrival scan: for (i = 0; i < n; i++) if arrived, unfinished, not
\* flagged and not the job that just ran (skip = -1 in the idle branch):
\* queue[rear++] = i; in_queue[i] = 1.
RECURSIVE ScanArrivals(_, _, _, _, _, _)
ScanArrivals(i, st, b, tmp, now, skip) ==
    IF i >= n THEN st
    ELSE IF /\ tmp[i].arrival_time <= now
            /\ tmp[i].remaining_time > 0
            /\ st.in_queue[i] = 0
            /\ i # skip
         THEN ScanArrivals(i + 1, Enqueue(st, b, i), b, tmp, now, skip)
         ELSE ScanArrivals(i + 1, st, b, tmp, now, skip)

\* The layouts a step may meet: the one already met, else any.
Layouts == IF build = "unset" THEN Builds ELSE {build}

\* The layout is met once a step has accessed a word past queue[].
Met(b, r) == IF build = "unset" /\ r <= MAX_PROCESSES THEN "unset" ELSE b

RRIdle ==
    /\ pc = "loop" /\ alg = "rr"
    /\ completed < n
    /\ front = rear
    /\ current_time < MaxClock
    /\ \E b \in Layouts :
        LET st == ScanArrivals(0, [queue |-> queue, in_queue |-> in_queue,
                                   rear |-> rear],
                               b, temp, current_time + 1, -1)
        IN /\ queue' = st.queue
           /\ in_queue' = st.in_queue
           /\ rear' = st.rear
           /\ st.rear <= QueueWords
           /\ build' = Met(b, st.rear)
    /\ current_time' = current_time + 1
    /\ UNCHANGED <<threadVars, processVars, semaphoreVars>>
    /\ UNCHANGED <<processes, p, alg, n, proc, temp, completed, context_switches,
                   is_running, events, is_completed, fcfs_i, front, executed,
                   m, pc, short_slice>>

RRDispatch ==
    /\ pc = "loop" /\ alg = "rr"
    /\ completed < n
    /\ front # rear
    /\ \E b \in Layouts :
        LET idx == QueueAt(b, front)
            st0 == [queue |-> queue,
                    in_queue |-> [in_queue EXCEPT ![idx] = 0],
                    rear |-> rear]
            t1 == MarkStart(temp, idx, current_time)
            exec_time == ExecTime(t1[idx].remaining_time)
            t2 == [t1 EXCEPT ![idx].remaining_time = @ - exec_time]
            now == current_time + exec_time
            st1 == ScanArrivals(0, st0, b, t2, now, idx)
            finished == t2[idx].remaining_time = 0
            st2 == IF finished THEN st1 ELSE Enqueue(st1, b, idx)
        IN /\ temp' = IF finished THEN Complete(t2, idx, now) ELSE t2
           /\ completed' = IF finished THEN completed + 1 ELSE completed
           /\ queue' = st2.queue
           /\ in_queue' = st2.in_queue
           /\ rear' = st2.rear
           /\ st2.rear <= QueueWords
           /\ build' = Met(b, st2.rear)
           /\ current_time' = now
           /\ executed' = [executed EXCEPT ![idx] = @ + exec_time]
           /\ short_slice' = IF exec_time < TIME_QUANTUM
                             THEN short_slice \cup {idx} ELSE short_slice
    /\ front' = front + 1
    /\ context_switches' = context_switches + 1
    /\ UNCHANGED <<threadVars, processVars, semaphoreVars>>
    /\ UNCHANGED <<processes, p, alg, n, proc, is_running, events, is_completed, fcfs_i, m,
                   pc>>

\* ------------------------------------------------------------------- return
LoopDone ==
    IF alg = "fcfs" THEN fcfs_i >= n ELSE completed >= n

\* calculate_metrics, m.context_switches, the copy back and the return.
Finish ==
    /\ pc = "loop"
    /\ LoopDone
    /\ m' = [calculate_metrics(temp, n, current_time)
                EXCEPT !.context_switches = context_switches]
    /\ proc' = temp
    /\ p' = [p EXCEPT ![CallTarget(alg)] = temp]
    /\ pc' = "done"
    /\ UNCHANGED <<threadVars, processVars, semaphoreVars>>
    /\ UNCHANGED <<processes, alg, build, n, temp, current_time, completed,
                   context_switches, is_running, events, is_completed, fcfs_i,
                   queue, in_queue, front, rear, executed, short_slice>>

\* Back in the caller, which calls the next algorithm on its array.
NextAlgorithm(a) ==
    CASE a = "priority" -> "fcfs"
      [] a = "fcfs" -> "sjf"
      [] a = "sjf" -> "rr"

CallNext ==
    /\ pc = "done"
    /\ alg # "rr"
    /\ alg' = NextAlgorithm(alg)
    /\ proc' = p[CallTarget(alg')]
    /\ temp' = proc'
    /\ current_time' = 0
    /\ completed' = 0
    /\ context_switches' = 0
    /\ is_completed' = [k \in 0..(n - 1) |-> 0]
    /\ fcfs_i' = 0
    /\ queue' = [w \in 0..(QueueWords - 1) |-> 0]
    /\ in_queue' = [k \in 0..(MAX_PROCESSES - 1) |-> 0]
    /\ front' = 0
    /\ rear' = 0
    /\ executed' = [k \in 0..(n - 1) |-> 0]
    /\ short_slice' = {}
    /\ pc' = "call"
    /\ UNCHANGED <<threadVars, processVars, semaphoreVars>>
    /\ UNCHANGED <<processes, p, build, n, is_running, events, m>>

Next ==
    \/ Invoke
    \/ PriorityIdle
    \/ PriorityTick
    \/ FcfsStep
    \/ SjfIdle
    \/ SjfDispatch
    \/ RRIdle
    \/ RRDispatch
    \/ Finish
    \/ CallNext

Spec == Init /\ [][Next]_vars

WideSpec == WideInit /\ [][Next]_vars

\* fcfs_scheduling alone, from its call to its return.
FcfsNext ==
    \/ Invoke
    \/ FcfsStep
    \/ Finish

FcfsSpec == LongInit /\ [][FcfsNext]_vars

\* ------------------------------------------------------------ a second call
\* Registries of the calls on arrays that already hold a run's results.
RerunRegistries ==
    {MakeRegistry(rows) :
        rows \in UNION {SeqsOfLen(JobChoices, k) : k \in 1..MaxWideJobs}}

RerunInit ==
    /\ \E reg \in RerunRegistries : AtCall("priority", reg)
    /\ OnlyScheduler

\* After the four calls the caller calls an algorithm once more on the array
\* it has passed to it before: proc[] now holds what that run copied back.
CallAgain ==
    /\ pc = "done"
    /\ alg = "rr"
    /\ \E a \in Algorithms : alg' = a
    /\ proc' = p[CallTarget(alg')]
    /\ temp' = proc'
    /\ current_time' = 0
    /\ completed' = 0
    /\ context_switches' = 0
    /\ is_completed' = [k \in 0..(n - 1) |-> 0]
    /\ fcfs_i' = 0
    /\ queue' = [w \in 0..(QueueWords - 1) |-> 0]
    /\ in_queue' = [k \in 0..(MAX_PROCESSES - 1) |-> 0]
    /\ front' = 0
    /\ rear' = 0
    /\ executed' = [k \in 0..(n - 1) |-> 0]
    /\ short_slice' = {}
    /\ pc' = "call"
    /\ UNCHANGED <<threadVars, processVars, semaphoreVars>>
    /\ UNCHANGED <<processes, p, build, n, is_running, events, m>>

RerunNext ==
    \/ Next
    \/ CallAgain

RerunSpec == RerunInit /\ [][RerunNext]_vars

\* ======================================================== the thread programs
\* The four two-thread programs, each in its pthread and its Win32 source:
\*   "deadlock"        doctor_thread and pharmacy_thread take the two mutexes
\*                     in opposite orders
\*   "lock_ordering"   both take patient_record_mutex first
\*   "race_condition"  doctor_thread and nurse_thread share the record unlocked
\*   "mutex_solution"  the same two under one mutex (patient_mutex in the
\*                     pthread source, patient_record_mutex in the Win32 one)
\* A thread function is the sequence of its statements that lock, unlock,
\* sleep or touch shared data; sleeps are steps that take any time.
LockPrograms == {"deadlock", "lock_ordering"}

RecordPrograms == {"race_condition", "mutex_solution"}

Platforms == {"posix", "win32"}

Threads(prog) ==
    IF prog \in LockPrograms THEN {"doctor", "pharmacy"} ELSE {"doctor", "nurse"}

\* doctor_thread of the two lock programs.
DoctorLocks ==
    << <<"lock", "patient_record_mutex">>, <<"work", "diagnose">>,
       <<"lock", "medication_inventory_mutex">>, <<"work", "prescribe">>,
       <<"unlock", "medication_inventory_mutex">>,
       <<"unlock", "patient_record_mutex">> >>

\* pharmacy_thread of the deadlock demonstration.
PharmacyReversed ==
    << <<"work", "delay">>,
       <<"lock", "medication_inventory_mutex">>, <<"work", "check_stock">>,
       <<"lock", "patient_record_mutex">>, <<"work", "dispense">>,
       <<"unlock", "patient_record_mutex">>,
       <<"unlock", "medication_inventory_mutex">> >>

\* Mutant of PharmacyOrdered: medication_inventory_mutex is taken first.
PharmacyOrderedSwapped ==
    << <<"work", "delay">>,
       <<"lock", "medication_inventory_mutex">>, <<"work", "verify">>,
       <<"lock", "patient_record_mutex">>, <<"work", "dispense">>,
       <<"unlock", "patient_record_mutex">>,
       <<"unlock", "medication_inventory_mutex">> >>

\* pharmacy_thread of the lock-ordering solution.
PharmacyOrdered ==
    << <<"work", "delay">>,
       <<"lock", "patient_record_mutex">>, <<"work", "verify">>,
       <<"lock", "medication_inventory_mutex">>, <<"work", "dispense">>,
       <<"unlock", "medication_inventory_mutex">>,
       <<"unlock", "patient_record_mutex">> >>

\* Mutant of DoctorGuarded: the mutex is released before the prescription is
\* written.
DoctorGuardedEarlyUnlock ==
    << <<"lock", "patient_record_mutex">>, <<"work", "read">>,
       <<"work", "decide">>, <<"unlock", "patient_record_mutex">>,
       <<"work", "write">> >>

\* doctor_thread of the mutex solution.
DoctorGuarded ==
    << <<"lock", "patient_record_mutex">>, <<"work", "read">>,
       <<"work", "decide">>, <<"work", "write">>,
       <<"unlock", "patient_record_mutex">> >>

\* nurse_thread of the mutex solution.
NurseGuarded ==
    << <<"work", "delay">>, <<"lock", "patient_record_mutex">>,
       <<"work", "update">>, <<"unlock", "patient_record_mutex">> >>

\* doctor_thread and nurse_thread of the race-condition demonstration.
DoctorUnguarded ==
    << <<"work", "read">>, <<"work", "decide">>, <<"work", "write">> >>

NurseUnguarded ==
    << <<"work", "delay">>, <<"work", "update">> >>

Code(prog, t) ==
    CASE prog \in LockPrograms /\ t = "doctor" -> DoctorLocks
      [] prog = "deadlock" /\ t = "pharmacy" -> PharmacyReversed
      [] prog = "lock_ordering" /\ t = "pharmacy" -> PharmacyOrdered
      [] prog = "mutex_solution" /\ t = "doctor" -> DoctorGuarded
      [] prog = "mutex_solution" /\ t = "nurse" -> NurseGuarded
      [] prog = "race_condition" /\ t = "doctor" -> DoctorUnguarded
      [] prog = "race_condition" /\ t = "nurse" -> NurseUnguarded

\* The strings of the two sources.
NoAllergy(plat) == IF plat = "posix" THEN "None" ELSE "No allergies"

PenicillinAllergy(plat) ==
    IF plat = "posix" THEN "Penicillin Allergy" ELSE "Penicillin allergy"

Alternative(plat) ==
    IF plat = "posix" THEN "Alternative antibiotic" ELSE "Alternative medication"

\* The globals as initialised: PatientRecord patient and MedicationInventory
\* medication of the lock programs, PatientRecord patient of the record ones.
\* A field the program's struct does not have is "" (0 for the stock); the
\* Win32 lock programs have neither global.
InitialPatient(prog, plat) ==
    IF prog \in LockPrograms
    THEN IF plat = "win32" THEN NoPatient
         ELSE [diagnosis |-> "Not diagnosed",
               allergy |-> IF prog = "deadlock" THEN "Unknown" ELSE "None",
               prescription |-> ""]
    ELSE [diagnosis |-> "",
          allergy |-> NoAllergy(plat),
          prescription |-> IF plat = "posix" THEN "Not prescribed" ELSE "None"]

InitialMedication(prog, plat) ==
    [stock_available |->
        IF prog \in LockPrograms /\ plat = "posix" THEN InitialStock ELSE 0]

ThreadsInit(progs) ==
    /\ program \in progs
    /\ platform \in Platforms
    /\ thread = [t \in Threads(program) |-> 1]
    /\ exit_code = [t \in Threads(program) |-> -1]
    /\ patient_record_mutex = "free"
    /\ medication_inventory_mutex = "free"
    /\ patient = InitialPatient(program, platform)
    /\ medication = InitialMedication(program, platform)
    /\ local_allergy = ""

\* The statement thread t is at.
At(t) == Code(program, t)[thread[t]]

Running(t) == thread[t] \in 1..Len(Code(program, t))

Owner(mx) ==
    IF mx = "patient_record_mutex" THEN patient_record_mutex
    ELSE medication_inventory_mutex

\* Mutant of TimedWait: every Win32 wait has the 5 s timeout.
TimedWaitAlways(prog, plat) == plat = "win32"

\* WaitForSingleObject(mutex, 5000) of the Win32 lock-ordering solution; all
\* other waits are pthread_mutex_lock or WaitForSingleObject(mutex, INFINITE).
TimedWait(prog, plat) == prog = "lock_ordering" /\ plat = "win32"

\* pthread_mutex_lock / WaitForSingleObject returning with the mutex owned.
Acquire(t) ==
    /\ Running(t)
    /\ At(t)[1] = "lock"
    /\ Owner(At(t)[2]) = "free"
    /\ IF At(t)[2] = "patient_record_mutex"
       THEN patient_record_mutex' = t /\ UNCHANGED medication_inventory_mutex
       ELSE medication_inventory_mutex' = t /\ UNCHANGED patient_record_mutex
    /\ thread' = [thread EXCEPT ![t] = @ + 1]
    /\ UNCHANGED <<program, platform, exit_code, patient, medication,
                   local_allergy>>
    /\ UNCHANGED <<schedulerVars, processVars, semaphoreVars>>

\* WAIT_TIMEOUT: the mutex stayed owned by the other thread for 5 s.  The
\* thread releases patient_record_mutex if it owns it and returns 1.
Timeout(t) ==
    /\ Running(t)
    /\ At(t)[1] = "lock"
    /\ TimedWait(program, platform)
    /\ Owner(At(t)[2]) \notin {"free", t}
    /\ patient_record_mutex' =
           IF patient_record_mutex = t THEN "free" ELSE patient_record_mutex
    /\ thread' = [thread EXCEPT ![t] = 0]
    /\ exit_code' = [exit_code EXCEPT ![t] = 1]
    /\ UNCHANGED <<program, platform, medication_inventory_mutex, patient,
                   medication, local_allergy>>
    /\ UNCHANGED <<schedulerVars, processVars, semaphoreVars>>

\* pthread_mutex_unlock / ReleaseMutex.
Release(t) ==
    /\ Running(t)
    /\ At(t)[1] = "unlock"
    /\ IF At(t)[2] = "patient_record_mutex"
       THEN patient_record_mutex' = "free" /\ UNCHANGED medication_inventory_mutex
       ELSE medication_inventory_mutex' = "free" /\ UNCHANGED patient_record_mutex
    /\ thread' = [thread EXCEPT ![t] = @ + 1]
    /\ UNCHANGED <<program, platform, exit_code, patient, medication,
                   local_allergy>>
    /\ UNCHANGED <<schedulerVars, processVars, semaphoreVars>>

\* strstr(s, "Penicillin") != NULL on the strings the programs store.
MentionsPenicillin(str) ==
    str \in {"Penicillin Allergy", "Penicillin allergy", "Penicillin 500mg"}

\* Mutant of Prescribed: the test is made on the record's allergy as it is at
\* the write, not on the doctor's local copy.
PrescribedFromRecord(prog, plat, local, before) ==
    IF patient.allergy = NoAllergy(plat) THEN "Penicillin 500mg"
    ELSE IF prog = "race_condition" /\ plat = "win32" THEN before
    ELSE Alternative(plat)

\* The prescription doctor_thread writes from its local copy; the Win32 race
\* demonstration has no else branch.
Prescribed(prog, plat, local, before) ==
    IF local = NoAllergy(plat) THEN "Penicillin 500mg"
    ELSE IF prog = "race_condition" /\ plat = "win32" THEN before
    ELSE Alternative(plat)

\* The statements between the lock calls.
Work(t) ==
    /\ Running(t)
    /\ At(t)[1] = "work"
    /\ LET w == At(t)[2] IN
        /\ patient' =
            CASE w = "diagnose" /\ platform = "posix" ->
                    [patient EXCEPT
                        !.diagnosis = "Severe chest pain - cardiac event",
                        !.allergy = IF program = "lock_ordering"
                                    THEN "None" ELSE @]
              [] w = "update" ->
                    [patient EXCEPT !.allergy = PenicillinAllergy(platform)]
              [] w = "write" ->
                    [patient EXCEPT !.prescription =
                        Prescribed(program, platform, local_allergy, @)]
              [] OTHER -> patient
        /\ medication' =
            IF w = "prescribe" /\ program = "lock_ordering" /\ platform = "posix"
            THEN [medication EXCEPT !.stock_available = @ - 1]
            ELSE medication
        /\ local_allergy' = IF w = "read" THEN patient.allergy ELSE local_allergy
    /\ thread' = [thread EXCEPT ![t] = @ + 1]
    /\ UNCHANGED <<program, platform, exit_code, patient_record_mutex,
                   medication_inventory_mutex>>
    /\ UNCHANGED <<schedulerVars, processVars, semaphoreVars>>

\* return NULL / return 0 at the end of the thread function.
Return(t) ==
    /\ thread[t] = Len(Code(program, t)) + 1
    /\ thread' = [thread EXCEPT ![t] = 0]
    /\ exit_code' = [exit_code EXCEPT ![t] = 0]
    /\ UNCHANGED <<program, platform, patient_record_mutex,
                   medication_inventory_mutex, patient, medication,
                   local_allergy>>
    /\ UNCHANGED <<schedulerVars, processVars, semaphoreVars>>

ThreadStep(t) ==
    \/ Acquire(t)
    \/ Timeout(t)
    \/ Release(t)
    \/ Work(t)
    \/ Return(t)

\* The scheduler is not part of these programs.
NoScheduler == AtCall("priority", MakeRegistry(<< >>))

\* The deadlock demonstration and the lock-ordering solution.
LockInit ==
    /\ ThreadsInit(LockPrograms)
    /\ NoScheduler
    /\ NoMain
    /\ NoChildren
    /\ NoPool

LockNext == \E t \in {"doctor", "pharmacy"} : ThreadStep(t)

LockSpec == LockInit /\ [][LockNext]_vars

\* Each thread is scheduled again and again while it can take a step.
LockFairSpec ==
    /\ LockSpec
    /\ WF_vars(ThreadStep("doctor"))
    /\ WF_vars(ThreadStep("pharmacy"))

\* The race-condition demonstration and the mutex solution.
RecordInit ==
    /\ ThreadsInit(RecordPrograms)
    /\ NoScheduler
    /\ NoMain
    /\ NoChildren
    /\ NoPool

\* Neither source of these two programs waits with a timeout.
RecordStep(t) ==
    \/ Acquire(t)
    \/ Release(t)
    \/ Work(t)
    \/ Return(t)

RecordNext == \E t \in {"doctor", "nurse"} : RecordStep(t)

RecordSpec == RecordInit /\ [][RecordNext]_vars

\* ================================================ the process-cleanup solution
\* main of the solution in Resource_Exhaustion_(good output).c (lines
\* 180-306) and the children it forks.  The children of the loop are alike
\* (register_patient: sleep(1); exit(0)) and waitpid(-1, ...) takes any of
\* them, so they are counted: running_children and zombies.
CleanupInit ==
    /\ program = "proper_cleanup"
    /\ NoThreads
    /\ NoScheduler
    /\ NoPool
    /\ main_pc = "loop"
    /\ loop_i = 1
    /\ NoChildren

\* Mutant of AfterLoop: the loop is followed by the critical patient's fork,
\* without the blocking waitpid loop.
AfterLoopNoWait == "critical_fork"

\* Where main goes on after the spawning loop.
AfterLoop == "final_wait"

\* i++ and the loop test at the end of an iteration.
NextPatient ==
    /\ loop_i' = loop_i + 1
    /\ main_pc' = IF loop_i + 1 > MaxPatients THEN AfterLoop ELSE "loop"

\* fork() returns the child's pid to the parent: active_children++, and at
\* every tenth patient the cleanup loop is entered.
Fork ==
    /\ main_pc = "loop"
    /\ running_children' = running_children + 1
    /\ patients_spawned' = patients_spawned + 1
    /\ active_children' = active_children + 1
    /\ IF loop_i % CleanupEvery = 0
       THEN main_pc' = "reap" /\ UNCHANGED loop_i
       ELSE NextPatient
    /\ UNCHANGED <<completed_registrations, zombies, critical_child>>
    /\ UNCHANGED <<schedulerVars, threadVars, semaphoreVars>>

\* fork() returns -1: break.
ForkFails ==
    /\ main_pc = "loop"
    /\ main_pc' = AfterLoop
    /\ UNCHANGED <<loop_i, active_children, completed_registrations,
                   running_children, zombies, patients_spawned, critical_child>>
    /\ UNCHANGED <<schedulerVars, threadVars, semaphoreVars>>

\* A child leaves register_patient through exit(0) and stays as a zombie
\* until the parent waits for it.
ChildExit ==
    /\ main_pc # "none"
    /\ running_children > 0
    /\ running_children' = running_children - 1
    /\ zombies' = zombies + 1
    /\ UNCHANGED <<main_pc, loop_i, active_children, completed_registrations,
                   patients_spawned, critical_child>>
    /\ UNCHANGED <<schedulerVars, threadVars, semaphoreVars>>

\* waitpid(-1, &status, WNOHANG) > 0 and waitpid(-1, &status, 0) > 0: a
\* zombie is reaped; active_children--, completed_registrations++.
ReapOne ==
    /\ main_pc \in {"reap", "final_wait"}
    /\ zombies > 0
    /\ zombies' = zombies - 1
    /\ active_children' = active_children - 1
    /\ completed_registrations' = completed_registrations + 1
    /\ UNCHANGED <<main_pc, loop_i, running_children, patients_spawned,
                   critical_child>>
    /\ UNCHANGED <<schedulerVars, threadVars, semaphoreVars>>

\* waitpid(-1, &status, WNOHANG) returns 0 (no child has exited) or -1 (no
\* child is left): the cleanup loop ends.
ReapDone ==
    /\ main_pc = "reap"
    /\ zombies = 0
    /\ NextPatient
    /\ UNCHANGED <<active_children, completed_registrations, running_children,
                   zombies, patients_spawned, critical_child>>
    /\ UNCHANGED <<schedulerVars, threadVars, semaphoreVars>>

\* waitpid(-1, &status, 0) returns -1: no child is left.  While a child is
\* still running the call blocks.
WaitDone ==
    /\ main_pc = "final_wait"
    /\ zombies = 0
    /\ running_children = 0
    /\ main_pc' = "critical_fork"
    /\ UNCHANGED <<loop_i, active_children, completed_registrations,
                   running_children, zombies, patients_spawned, critical_child>>
    /\ UNCHANGED <<schedulerVars, threadVars, semaphoreVars>>

\* pid = fork() for CRITICAL_PATIENT: the parent goes on to waitpid(pid, ...),
\* or, the fork having failed, to the end of main.
CriticalFork ==
    /\ main_pc = "critical_fork"
    /\ \/ critical_child' = "running" /\ main_pc' = "critical_wait"
       \/ critical_child' = "failed" /\ main_pc' = "exit"
    /\ UNCHANGED <<loop_i, active_children, completed_registrations,
                   running_children, zombies, patients_spawned>>
    /\ UNCHANGED <<schedulerVars, threadVars, semaphoreVars>>

\* The critical patient's child exits.
CriticalExit ==
    /\ critical_child = "running"
    /\ critical_child' = "zombie"
    /\ UNCHANGED <<main_pc, loop_i, active_children, completed_registrations,
                   running_children, zombies, patients_spawned>>
    /\ UNCHANGED <<schedulerVars, threadVars, semaphoreVars>>

\* waitpid(pid, &status, 0) returns for the critical patient's child.
CriticalWait ==
    /\ main_pc = "critical_wait"
    /\ critical_child = "zombie"
    /\ critical_child' = "reaped"
    /\ main_pc' = "exit"
    /\ UNCHANGED <<loop_i, active_children, completed_registrations,
                   running_children, zombies, patients_spawned>>
    /\ UNCHANGED <<schedulerVars, threadVars, semaphoreVars>>

CleanupNext ==
    \/ Fork
    \/ ForkFails
    \/ ChildExit
    \/ ReapOne
    \/ ReapDone
    \/ WaitDone
    \/ CriticalFork
    \/ CriticalExit
    \/ CriticalWait

CleanupSpec == CleanupInit /\ [][CleanupNext]_vars

\* ======================================================= the semaphore solution
\* main and patient_registration of the semaphore solution in
\* deadlock_problem_windows.c (lines 231-349).  registration[i] is where the
\* thread created for threads[i] stands: "unborn", "waiting" (before or in
\* WaitForSingleObject), "holding" (between the wait and ReleaseSemaphore),
\* "done" (returned), "failed" (CreateThread returned NULL), "terminated"
\* (ended with the process before it returned).  acquired[i] and released[i]
\* count the thread's successful waits and its ReleaseSemaphore calls.
Requests == 0 .. MaxRequests - 1

\* CreateSemaphore(NULL, MAX_DB_CONNECTIONS, MAX_DB_CONNECTIONS, NULL), then
\* main enters the spawning loop with i = 0.
PoolInit ==
    /\ program = "semaphore_solution"
    /\ NoThreads
    /\ NoScheduler
    /\ NoChildren
    /\ main_pc = "spawn"
    /\ loop_i = 0
    /\ db_connection_semaphore = MaxConnections
    /\ registration = [i \in Requests |-> "unborn"]
    /\ acquired = [i \in Requests |-> 0]
    /\ released = [i \in Requests |-> 0]

PoolIdleVars ==
    <<active_children, completed_registrations, running_children, zombies,
      patients_spawned, critical_child>>

\* One iteration of the spawning loop: threads[i] = CreateThread(...), which
\* may return NULL; i++.
SpawnRegistration ==
    /\ main_pc = "spawn"
    /\ \E outcome \in {"waiting", "failed"} :
          registration' = [registration EXCEPT ![loop_i] = outcome]
    /\ loop_i' = loop_i + 1
    /\ main_pc' = IF loop_i + 1 < MaxRequests THEN "spawn" ELSE "wait"
    /\ UNCHANGED <<db_connection_semaphore, acquired, released>>
    /\ UNCHANGED <<schedulerVars, threadVars, PoolIdleVars>>

\* WaitForSingleObject(db_connection_semaphore, 5000) returns WAIT_OBJECT_0:
\* the count was above zero and is decremented.
RegistrationAcquire(i) ==
    /\ main_pc # "exited"
    /\ registration[i] = "waiting"
    /\ db_connection_semaphore > 0
    /\ db_connection_semaphore' = db_connection_semaphore - 1
    /\ acquired' = [acquired EXCEPT ![i] = @ + 1]
    /\ registration' = [registration EXCEPT ![i] = "holding"]
    /\ UNCHANGED <<main_pc, loop_i, released>>
    /\ UNCHANGED <<schedulerVars, threadVars, PoolIdleVars>>

\* The wait returns WAIT_TIMEOUT: the count stayed at zero for five seconds.
\* The thread prints and returns.
RegistrationTimeout(i) ==
    /\ main_pc # "exited"
    /\ registration[i] = "waiting"
    /\ db_connection_semaphore = 0
    /\ registration' = [registration EXCEPT ![i] = "done"]
    /\ UNCHANGED <<main_pc, loop_i, db_connection_semaphore, acquired, released>>
    /\ UNCHANGED <<schedulerVars, threadVars, PoolIdleVars>>

\* ReleaseSemaphore(db_connection_semaphore, 1, NULL), and the thread
\* returns.
RegistrationRelease(i) ==
    /\ main_pc # "exited"
    /\ registration[i] = "holding"
    /\ db_connection_semaphore' = db_connection_semaphore + 1
    /\ released' = [released EXCEPT ![i] = @ + 1]
    /\ registration' = [registration EXCEPT ![i] = "done"]
    /\ UNCHANGED <<main_pc, loop_i, acquired>>
    /\ UNCHANGED <<schedulerVars, threadVars, PoolIdleVars>>

\* Whether
\* WaitForMultipleObjects(count, handles, TRUE, INFINITE) returns in the
\* present state.  With more than MAXIMUM_WAIT_OBJECTS handles, or a NULL
\* handle among them, it fails and returns at once; otherwise it returns when
\* every thread has ended.
WaitReturns(count) ==
    \/ count > MAXIMUM_WAIT_OBJECTS
    \/ \E i \in Requests : registration[i] = "failed"
    \/ \A i \in Requests : registration[i] = "done"

\* WaitForMultipleObjects(TOTAL_REQUESTS, threads, TRUE, INFINITE); its
\* result is not looked at.
MainWait ==
    /\ main_pc = "wait"
    /\ WaitReturns(TOTAL_REQUESTS)
    /\ main_pc' = "cleanup"
    /\ UNCHANGED <<loop_i, semaphoreVars>>
    /\ UNCHANGED <<schedulerVars, threadVars, PoolIdleVars>>

\* The CloseHandle calls, the closing text and return 0 from main: the
\* process ends, and with it every thread that has not returned.
MainReturn ==
    /\ main_pc = "cleanup"
    /\ main_pc' = "exited"
    /\ registration' = [i \in Requests |->
                           IF registration[i] \in {"waiting", "holding"}
                           THEN "terminated"
                           ELSE registration[i]]
    /\ UNCHANGED <<loop_i, db_connection_semaphore, acquired, released>>
    /\ UNCHANGED <<schedulerVars, threadVars, PoolIdleVars>>

PoolNext ==
    \/ SpawnRegistration
    \/ MainWait
    \/ MainReturn
    \/ \E i \in Requests :
          \/ RegistrationAcquire(i)
          \/ RegistrationTimeout(i)
          \/ RegistrationRelease(i)

PoolSpec == PoolInit /\ [][PoolNext]_vars

\* ====================================================================== claims
Jobs == 0..(n - 1)

\* Job i has arrived and still has work at the current tick.
Eligible(i) == temp[i].arrival_time <= current_time /\ temp[i].remaining_time > 0

\* Job j is not beaten by job k: a lower priority number, or the same and an
\* index that is not higher.
Beats(j, k) ==
    \/ temp[j].priority < temp[k].priority
    \/ temp[j].priority = temp[k].priority /\ j <= k

\* The call was made on the jobs of registry reg.
RunsOn(reg) ==
    /\ n = Size(reg)
    /\ \A i \in Jobs : /\ proc[i].priority = reg[i].priority
                       /\ proc[i].arrival_time = reg[i].arrival_time
                       /\ proc[i].burst_time = reg[i].burst_time

\* C1: when any of the four algorithms has returned, every job has
\* turnaround_time = completion_time - arrival_time and
\* waiting_time = turnaround_time - burst_time, with waiting_time >= 0 and
\* turnaround_time >= burst_time.
C1_TimingFields ==
    pc = "done" =>
        \A i \in Jobs :
            /\ proc[i].turnaround_time = proc[i].completion_time - proc[i].arrival_time
            /\ proc[i].waiting_time = proc[i].turnaround_time - proc[i].burst_time
            /\ proc[i].waiting_time >= 0
            /\ proc[i].turnaround_time >= proc[i].burst_time

\* C2: conservation of work.  remaining_time is never negative; when the run
\* has ended every job has been executed for exactly burst_time units and has
\* remaining_time = 0; in FCFS and SJF the single dispatch lasts burst_time.
C2_Conservation ==
    /\ \A i \in Jobs : temp[i].remaining_time >= 0
    /\ pc = "done" =>
        \A i \in Jobs :
            /\ executed[i] = proc[i].burst_time
            /\ proc[i].remaining_time = 0
            /\ alg \in {"fcfs", "sjf"} =>
                 proc[i].completion_time - proc[i].start_time = proc[i].burst_time

\* C3: in every tick of the preemptive scheduler with an eligible job, the
\* job executed in that tick is an eligible job with the lowest priority
\* number, and the lowest index among the eligible jobs with that number.
C3_LowestPriorityRuns ==
    [][(alg = "priority" /\ pc = "loop" /\ \E i \in Jobs : Eligible(i)) =>
          \E j \in Jobs :
              /\ Eligible(j)
              /\ \A k \in Jobs : Eligible(k) => Beats(j, k)
              /\ current_time' = current_time + 1
              /\ temp'[j].remaining_time = temp[j].remaining_time - 1
              /\ \A k \in Jobs \ {j} :
                     temp'[k].remaining_time = temp[k].remaining_time]_vars

\* A tick has just run job j while a higher-indexed job of the same priority
\* number was waiting.
C3_Witness ==
    /\ alg = "priority" /\ pc = "loop"
    /\ \E j, k \in Jobs :
          /\ j < k
          /\ is_running = j
          /\ temp[k].priority = temp[j].priority
          /\ temp[k].arrival_time < current_time
          /\ temp[k].remaining_time > 0
          /\ temp[k].start_time = -1

\* C4: priority_scheduling on the worked example P0{0,5,prio 5}, P1{2,2,prio 1},
\* P2{4,3,prio 3} returns the trace Start(P0,0), Preempt(P0,2), Start(P1,2),
\* Complete(P1,4), Start(P2,4), Complete(P2,7), Start(P0,7), Complete(P0,10),
\* P1 response 0 / turnaround 2 / waiting 0, P2 0 / 3 / 0, P0 0 / 10 / 5,
\* context_switches = 4 and total_time = 10.
C4_Example ==
    (alg = "priority" /\ pc = "done" /\ RunsOn(ExampleRegistry)) =>
        /\ events = << <<0, 0, 0>>, <<2, 0, 1>>, <<2, 1, 0>>, <<4, 1, 2>>,
                       <<4, 2, 0>>, <<7, 2, 2>>, <<7, 0, 0>>, <<10, 0, 2>> >>
        /\ proc[1].response_time = 0 /\ proc[1].turnaround_time = 2
        /\ proc[1].waiting_time = 0
        /\ proc[2].response_time = 0 /\ proc[2].turnaround_time = 3
        /\ proc[2].waiting_time = 0
        /\ proc[0].response_time = 0 /\ proc[0].turnaround_time = 10
        /\ proc[0].waiting_time = 5
        /\ m.context_switches = 4
        /\ m.total_time = 10

\* priority_scheduling has returned from the worked example.
C4_Witness ==
    alg = "priority" /\ pc = "done" /\ RunsOn(ExampleRegistry) /\ Len(events) = 8

InTrace(ev, row) == \E k \in 1..Len(ev) : ev[k] = row

\* Job J becomes eligible at the current tick while job is_running, which
\* has a strictly higher priority number, is running.
ArrivesOver(J) ==
    /\ alg = "priority" /\ pc = "loop"
    /\ is_running # -1
    /\ temp[J].arrival_time = current_time
    /\ temp[J].priority < temp[is_running].priority

\* C5 as stated: whenever a job J with a strictly lower priority number than
\* the running job R arrives at tick t, the trace gets Preempt(R, t) and
\* Start(J, t).
C5_Original ==
    [][\A J \in Jobs :
          ArrivesOver(J) =>
              /\ InTrace(events', <<current_time, is_running, 1>>)
              /\ InTrace(events', <<current_time, J, 0>>)]_vars

\* C5 amended: whenever a job J with a strictly lower priority number than
\* the running job R arrives at tick t, the trace gets Preempt(R, t), and it
\* gets Start(J, t) when no other eligible job at t has a lower priority
\* number than J, or the same number and a lower index; otherwise the Start
\* at t is that other job's.
C5_PreemptOnArrival ==
    [][\A J \in Jobs :
          ArrivesOver(J) =>
              /\ InTrace(events', <<current_time, is_running, 1>>)
              /\ \E S \in Jobs :
                    /\ Eligible(S)
                    /\ \A k \in Jobs : Eligible(k) => Beats(S, k)
                    /\ InTrace(events', <<current_time, S, 0>>)
                    /\ (\A k \in Jobs : Eligible(k) => Beats(J, k)) => S = J]_vars

\* The trace holds Preempt(R, t) directly followed by Start(J, t) for a job J
\* that arrived at t with a lower priority number than R.
C5_Witness ==
    /\ alg = "priority"
    /\ \E k \in 1..(Len(events) - 1) :
          /\ events[k][3] = 1
          /\ events[k + 1][3] = 0
          /\ events[k + 1][1] = events[k][1]
          /\ temp[events[k + 1][2]].arrival_time = events[k][1]
          /\ temp[events[k + 1][2]].priority < temp[events[k][2]].priority

\* C6 as stated: a Preempt event for R at t occurs only when a job with a
\* strictly lower priority number than R has arrival_time = t.
C6_Original ==
    \A k \in 1..Len(events) :
        events[k][3] = 1 =>
            \E J \in Jobs :
                /\ temp[J].arrival_time = events[k][1]
                /\ temp[J].priority < temp[events[k][2]].priority

\* C6 amended: a Preempt event for R at t occurs only when a job with
\* arrival_time = t has a strictly lower priority number than R, or the same
\* priority number and a lower registry index than R.
C6_PreemptOnlyOnArrival ==
    \A k \in 1..Len(events) :
        events[k][3] = 1 =>
            \E J \in Jobs :
                /\ temp[J].arrival_time = events[k][1]
                /\ \/ temp[J].priority < temp[events[k][2]].priority
                   \/ /\ temp[J].priority = temp[events[k][2]].priority
                      /\ J < events[k][2]

\* A job was preempted at the arrival of a job of the same priority number
\* registered before it.
C6_Witness ==
    \E k \in 1..(Len(events) - 1) :
        /\ events[k][3] = 1
        /\ events[k + 1] = <<events[k][1], events[k + 1][2], 0>>
        /\ temp[events[k + 1][2]].priority = temp[events[k][2]].priority
        /\ events[k + 1][2] < events[k][2]
        /\ temp[events[k + 1][2]].arrival_time = events[k][1]

\* C7 as stated, as the result of the run: when the algorithm returns, every
\* job is completed (completed = n in the three loops that count, remaining_time
\* = 0 for all jobs).
C7_TerminatesComplete ==
    pc = "done" =>
        /\ alg # "fcfs" => completed = n
        /\ \A i \in Jobs : proc[i].remaining_time = 0

\* A step of the preemptive scheduler switches to job i.
PriorityDispatched(i) ==
    /\ alg = "priority"
    /\ is_running # i
    /\ temp'[i].remaining_time < temp[i].remaining_time

\* A round-robin step dequeues job i.
RRDispatched(i) ==
    /\ alg = "rr"
    /\ front' = front + 1
    /\ QueueAt(build', front) = i

\* What C8 asks of one step.
StartKept ==
    \A i \in Jobs :
        LET dispatched == PriorityDispatched(i) \/ RRDispatched(i)
        IN /\ temp[i].start_time # -1 =>
                /\ temp'[i].start_time = temp[i].start_time
                /\ temp'[i].response_time = temp[i].response_time
           /\ (temp[i].start_time = -1 /\ dispatched) =>
                /\ temp'[i].start_time = current_time
                /\ temp'[i].response_time = current_time - temp[i].arrival_time
           /\ (temp[i].start_time = -1 /\ ~dispatched) =>
                temp'[i].start_time = -1
           /\ pc' = "done" =>
                /\ proc'[i].start_time = temp[i].start_time
                /\ proc'[i].response_time = temp[i].response_time

\* C8: in the preemptive and round-robin schedulers start_time and
\* response_time are written at the job's first dispatch (start_time = clock,
\* response_time = start_time - arrival_time), not before it, and keep that
\* value in every later step of the call, the returned array included.
C8_StartWrittenOnce ==
    [][(alg \in {"priority", "rr"} /\ pc = "loop") => StartKept]_vars

\* A job of the preemptive scheduler was started, preempted and started
\* again later, and still has the start_time of its first Start event.
C8_Witness ==
    /\ alg = "priority"
    /\ \E a, b \in 1..Len(events) :
          /\ a < b
          /\ events[a][3] = 0 /\ events[b][3] = 0
          /\ events[a][2] = events[b][2]
          /\ events[a][1] < events[b][1]
          /\ temp[events[a][2]].start_time = events[a][1]

\* A round-robin job has been dispatched more than once and has the
\* start_time of its first dispatch.
C8_WitnessRR ==
    /\ alg = "rr" /\ pc = "done"
    /\ \E i \in Jobs : /\ proc[i].burst_time > TIME_QUANTUM
                       /\ proc[i].start_time >= proc[i].arrival_time
                       /\ proc[i].completion_time >
                              proc[i].start_time + proc[i].burst_time

\* C9: the event log of the preemptive scheduler is append-only and ordered:
\* every step keeps the rows already logged, and the time of each row is at
\* least the time of every row before it.
C9_AppendOnlyOrdered ==
    [][/\ Len(events') >= Len(events)
       /\ SubSeq(events', 1, Len(events)) = events
       /\ \A a, b \in 1..Len(events') :
              a < b => events'[a][1] <= events'[b][1]]_vars

\* The log holds a Preempt and a Start of the same tick followed by a later
\* Complete.
C9_Witness ==
    \E k \in 1..(Len(events) - 2) :
        /\ events[k][3] = 1
        /\ events[k + 1][3] = 0
        /\ events[k + 1][1] = events[k][1]
        /\ events[k + 2][3] = 2
        /\ events[k + 2][1] > events[k + 1][1]

\* What C10 asks of the step that dequeues a job.
SliceOk ==
    LET j == QueueAt(build', front)
        d == current_time' - current_time
    IN /\ d = IF temp[j].remaining_time < TIME_QUANTUM
              THEN temp[j].remaining_time ELSE TIME_QUANTUM
       /\ executed'[j] = executed[j] + d
       /\ d <= TIME_QUANTUM
       /\ d < TIME_QUANTUM => temp'[j].remaining_time = 0
       /\ j \notin short_slice

\* C10 as stated: every round-robin dispatch runs the job for exactly
\* min(remaining_time, TIME_QUANTUM) units, never more than the quantum, and
\* a slice shorter than the quantum is the job's last: the slice leaves no
\* work and the job is not dispatched after it.
C10_QuantumSlices == [][(alg = "rr" /\ front' = front + 1) => SliceOk]_vars

\* queue[k] of the ready-queue words q and flags inq as the build b reads it.
QueueWordIn(q, inq, b, k) ==
    IF k >= MAX_PROCESSES /\ b \in {"adjacent", "adjacent_reorder"}
    THEN inq[k - MAX_PROCESSES]
    ELSE q[k]

\* What C11 asks of the step that dequeues a job J and leaves it with work.
ArrivalsFirst ==
    LET J == QueueAt(build', front)
        Arrivals == {i \in Jobs \ {J} : /\ temp[i].arrival_time <= current_time'
                                        /\ temp[i].remaining_time > 0
                                        /\ in_queue[i] = 0}
    IN temp'[J].remaining_time > 0 =>
          /\ rear' = rear + Cardinality(Arrivals) + 1
          /\ QueueWordIn(queue', in_queue', build', rear' - 1) = J
          /\ \A i \in Arrivals :
                \E k \in rear..(rear' - 2) :
                    QueueWordIn(queue', in_queue', build', k) = i

\* C11: in round robin, when the job J that has run its slice still has work,
\* every unfinished job not in the queue with arrival_time <= the clock after
\* the slice is appended to the ready queue in that step, at a position before
\* the one J is re-appended at (the queue is read in position order, so each is
\* dispatched before J's next dispatch).
C11_ArrivalsBeforeRequeue ==
    [][(alg = "rr" /\ front' = front + 1) => ArrivalsFirst]_vars

\* J has run a slice and waits at the tail of the queue, directly behind a
\* job that arrived during that slice and has not run yet.
C11_Witness ==
    /\ alg = "rr" /\ pc = "loop" /\ build = "unset"
    /\ rear - front >= 2
    /\ LET J == queue[rear - 1]
           A == queue[rear - 2]
       IN /\ J # A
          /\ executed[J] > 0 /\ temp[J].remaining_time > 0
          /\ temp[A].start_time = -1
          /\ temp[A].arrival_time > current_time - TIME_QUANTUM
          /\ temp[A].arrival_time > temp[J].start_time

\* Job i has arrived and has not been run by sjf_scheduling yet.
Waiting(i) == temp[i].arrival_time <= current_time /\ is_completed[i] = 0

\* Job j's burst is not beaten by job k's: shorter, or the same and an index
\* that is not higher.
Shorter(j, k) ==
    \/ temp[j].burst_time < temp[k].burst_time
    \/ temp[j].burst_time = temp[k].burst_time /\ j <= k

\* C12: at every SJF decision point with an arrived, not yet completed job,
\* the step dispatches the job with the minimum burst_time among those jobs
\* (lowest index among equals) and runs it to completion in that step:
\* start_time = clock, completion_time = start_time + burst_time = the new
\* clock, and no other job is touched.
C12_ShortestRunsToCompletion ==
    [][(alg = "sjf" /\ pc = "loop" /\ \E i \in Jobs : Waiting(i)) =>
          \E j \in Jobs :
              /\ Waiting(j)
              /\ \A k \in Jobs : Waiting(k) => Shorter(j, k)
              /\ temp'[j].start_time = current_time
              /\ temp'[j].completion_time = temp'[j].start_time + temp[j].burst_time
              /\ current_time' = temp'[j].completion_time
              /\ temp'[j].remaining_time = 0
              /\ is_completed' = [is_completed EXCEPT ![j] = 1]
              /\ completed' = completed + 1
              /\ \A k \in Jobs \ {j} : temp'[k] = temp[k]]_vars

\* SJF has run a job ahead of a longer job registered before it that was
\* already waiting, and ahead of a job of the same burst registered after it.
C12_Witness ==
    /\ alg = "sjf" /\ pc = "loop"
    /\ \E j, k, e \in Jobs :
          /\ k < j /\ j < e
          /\ is_completed[j] = 1 /\ is_completed[k] = 0 /\ is_completed[e] = 0
          /\ temp[k].arrival_time <= temp[j].start_time
          /\ temp[e].arrival_time <= temp[j].start_time
          /\ temp[j].burst_time < temp[k].burst_time
          /\ temp[j].burst_time = temp[e].burst_time

\* The registry is sorted by non-decreasing arrival_time.
SortedByArrival ==
    \A a, b \in Jobs : a < b => proc[a].arrival_time <= proc[b].arrival_time

\* C13: when fcfs_scheduling has returned from a registry sorted by
\* non-decreasing arrival_time, any job a that arrived strictly before a job b
\* completed no later than b started.
C13_FcfsArrivalOrder ==
    (alg = "fcfs" /\ pc = "done" /\ SortedByArrival) =>
        \A a, b \in Jobs :
            proc[a].arrival_time < proc[b].arrival_time =>
                proc[a].completion_time <= proc[b].start_time

\* FCFS has returned from a sorted registry in which a later arrival had to
\* wait for the job that arrived before it.
C13_Witness ==
    /\ alg = "fcfs" /\ pc = "done" /\ SortedByArrival
    /\ \E a, b \in Jobs :
          /\ proc[a].arrival_time < proc[b].arrival_time
          /\ proc[b].start_time > proc[b].arrival_time
          /\ proc[a].completion_time = proc[b].start_time

\* Dispatches round robin needs for a burst: ceil(burst / TIME_QUANTUM).
SlicesOf(burst) == (burst + TIME_QUANTUM - 1) \div TIME_QUANTUM

RECURSIVE SumSlices(_, _)
SumSlices(reg, i) ==
    IF i >= Size(reg) THEN 0
    ELSE SlicesOf(reg[i].burst_time) + SumSlices(reg, i + 1)

\* C14: the context_switches returned by FCFS, SJF and round robin is the
\* number of dispatches made: n for FCFS (loop passes) and SJF (jobs run), and
\* for round robin the number of dequeues, which is the sum over the jobs of
\* ceil(burst_time / TIME_QUANTUM).
C14_SwitchesAreDispatches ==
    pc = "done" =>
        /\ alg = "fcfs" => m.context_switches = fcfs_i /\ m.context_switches = n
        /\ alg = "sjf" => m.context_switches = completed /\ m.context_switches = n
        /\ alg = "rr" => /\ m.context_switches = front
                         /\ m.context_switches = SumSlices(proc, 0)

\* The completed emergency jobs of the returned array.
Emergencies == {i \in Jobs : proc[i].priority = 1 /\ proc[i].completion_time > 0}

\* C15: the returned emergency_response_min and emergency_response_max are the
\* smallest and the largest response_time of the completed priority-1 jobs
\* when there is one (so min <= max), and both are 0 when there is none.
C15_EmergencyExtrema ==
    pc = "done" =>
        IF Emergencies # {}
        THEN /\ \E i \in Emergencies :
                    /\ m.emergency_response_min = proc[i].response_time
                    /\ \A k \in Emergencies :
                           proc[i].response_time <= proc[k].response_time
             /\ \E i \in Emergencies :
                    /\ m.emergency_response_max = proc[i].response_time
                    /\ \A k \in Emergencies :
                           proc[i].response_time >= proc[k].response_time
             /\ m.emergency_response_min <= m.emergency_response_max
        ELSE /\ m.emergency_response_min = 0
             /\ m.emergency_response_max = 0

\* The largest completion_time in reg, 0 for no jobs.
RECURSIVE LastCompletion(_, _)
LastCompletion(reg, i) ==
    IF i >= Size(reg) THEN 0
    ELSE LET rest == LastCompletion(reg, i + 1)
         IN IF reg[i].completion_time > rest THEN reg[i].completion_time ELSE rest

\* C16: the total_time an algorithm returns is the largest completion_time of
\* the returned jobs, it is the clock at the return, and the clock never goes
\* back during a call (so it is never past that moment).
C16_TotalTimeIsLastCompletion ==
    [][/\ pc' = pc => current_time' >= current_time
       /\ pc' = "done" =>
            /\ m'.total_time = LastCompletion(proc', 0)
            /\ m'.total_time = current_time]_vars

\* An algorithm has returned after an idle gap, the job that completed last
\* not being the last of the registry.
C16_Witness ==
    /\ pc = "done" /\ n >= 2
    /\ proc[n - 1].completion_time < m.total_time
    /\ \E i \in Jobs : /\ proc[i].completion_time = m.total_time
                       /\ proc[i].start_time > proc[i].arrival_time
    /\ \E i \in Jobs : proc[i].arrival_time > 0 /\ proc[i].response_time = 0

\* The quotient q = <<numerator, denominator>> is a division that is defined
\* and gives 0.
ZeroQuotient(q) == q[1] = 0 /\ q[2] # 0

\* C17: called with n = 0, an algorithm makes no scheduling step (no tick, no
\* dispatch, no event, no enqueue) and returns Metrics in which every field
\* is 0, no quotient having a zero denominator.
C17_EmptyRegistry ==
    n = 0 =>
        /\ current_time = 0 /\ context_switches = 0 /\ completed = 0
        /\ fcfs_i = 0 /\ front = 0 /\ rear = 0 /\ events = << >>
        /\ pc = "done" =>
              /\ ZeroQuotient(m.avg_response_time)
              /\ ZeroQuotient(m.avg_turnaround_time)
              /\ ZeroQuotient(m.avg_waiting_time)
              /\ m.emergency_response_min = 0
              /\ m.emergency_response_max = 0
              /\ ZeroQuotient(m.cpu_utilization)
              /\ m.context_switches = 0
              /\ ZeroQuotient(m.throughput)
              /\ m.total_time = 0

\* The last of the four algorithms has returned from its call with n = 0.
C17_Witness == n = 0 /\ alg = "rr" /\ pc = "done" /\ processes = << >>

\* The job is one the specification calls invalid.
InvalidJob(j) == j.arrival_time < 0 \/ j.burst_time <= 0

HasInvalidJob == \E i \in DOMAIN processes : InvalidJob(processes[i])

\* C18 as stated: on a registry holding a job with negative arrival_time or
\* burst_time <= 0 no algorithm makes a scheduling step: no tick, no dispatch,
\* no event, no enqueue, no job field written.
C18_InvalidRejected ==
    HasInvalidJob =>
        /\ current_time = 0 /\ context_switches = 0 /\ completed = 0
        /\ fcfs_i = 0 /\ front = 0 /\ rear = 0 /\ events = << >>
        /\ temp = processes

\* priority_scheduling is still ticking at MaxClock on a registry in which no
\* job has work left and the job with burst_time 0 will never be counted.
C18_Witness ==
    /\ alg = "priority" /\ pc = "loop"
    /\ HasInvalidJob
    /\ current_time = MaxClock
    /\ completed < n
    /\ \A i \in Jobs : temp[i].remaining_time <= 0

\* C19 as stated: no algorithm reads or writes a slot with index >= 20 of its
\* working array: once the call has started, temp[] holds no job at an index
\* >= MAX_PROCESSES, and a registry of more than MAX_PROCESSES jobs does not get
\* past the call.
C19_CapacityRejected ==
    /\ pc # "call" => \A i \in DOMAIN temp : i < MAX_PROCESSES
    /\ n > MAX_PROCESSES => pc = "call"

\* A call with 21 jobs has copied all of them into temp[20].
C19_Witness ==
    /\ pc = "undefined"
    /\ n = MAX_PROCESSES + 1
    /\ temp[MAX_PROCESSES] = processes[MAX_PROCESSES]

\* What C20 asks of one step.
CopiesKept ==
    /\ processes' = processes
    /\ \A a \in Algorithms \ {alg} : p'[a] = p[a]
    /\ (pc = "call" /\ pc' # "call") =>
          /\ proc = p[alg]
          /\ proc = processes
          /\ \A i \in Jobs : /\ proc[i].remaining_time = proc[i].burst_time
                             /\ proc[i].start_time = -1

\* C20: in a scenario block no step writes the scenario's registry, an
\* algorithm writes no array but the one of p1..p4 that is its own, and the
\* array an algorithm is invoked on is a copy of the registry as it was built:
\* remaining_time = burst_time and start_time = -1 for every job.
C20_PristineCopies == [][CopiesKept]_vars

\* round_robin_scheduling is running on p4, still as copied, after the three
\* other algorithms have written their results into p1, p2 and p3.
C20_Witness ==
    /\ alg = "rr" /\ pc = "loop" /\ n >= 2
    /\ p["rr"] = processes
    /\ \A a \in Algorithms \ {"rr"} :
          \A i \in Jobs : /\ p[a][i].remaining_time = 0
                           /\ p[a][i].start_time >= 0
    /\ p["priority"] # p["fcfs"]
    /\ \E i \in Jobs : temp[i].remaining_time < temp[i].burst_time

\* C21: every algorithm run starts each job's remaining_time from its
\* burst_time, whatever remaining_time the array it is given holds: in the
\* step that enters the loop of a call, temp[i].remaining_time =
\* temp[i].burst_time for every job.
C21_RemainingReset ==
    [][(pc = "call" /\ pc' = "loop")
        => \A i \in 0..(n - 1) : temp'[i].remaining_time = temp'[i].burst_time]_vars

\* A second priority run on its own results: no job has been run, every
\* remaining_time is 0 and the clock has idled to the bound.
C21_Witness ==
    /\ alg = "priority" /\ pc = "loop" /\ n > 0
    /\ \A i \in Jobs : executed[i] = 0 /\ temp[i].remaining_time = 0
                                       /\ temp[i].burst_time > 0
    /\ completed = 0
    /\ current_time = MaxClock

\* C22: when priority_scheduling has returned on the emergency, the normal
\* or the best-case scenario, every priority-1 job has a response_time between
\* 0 and 5 and the reported emergency_response_max is at most 5.
C22_EmergencyWithinFive ==
    (/\ alg = "priority" /\ pc = "done"
     /\ \/ RunsOn(EmergencyScenario)
        \/ RunsOn(NormalScenario)
        \/ RunsOn(BestScenario))
    => /\ m.emergency_response_max <= 5
       /\ \A i \in Jobs :
            proc[i].priority = 1 =>
                proc[i].response_time >= 0 /\ proc[i].response_time <= 5

\* The emergency scenario's priority run has returned; its last emergency
\* waited the full five ticks.
C22_Witness ==
    /\ alg = "priority" /\ pc = "done"
    /\ RunsOn(EmergencyScenario)
    /\ m.emergency_response_max = 5
    /\ m.emergency_response_min = 0

\* C29: in round robin the queue indexes stay within the capacity of
\* queue[]: front and rear never pass MAX_PROCESSES, so every queue[rear++]
\* writes and every queue[front++] reads an index below MAX_PROCESSES.
C29_QueueIndexesInBounds ==
    alg = "rr" => /\ front >= 0 /\ front <= MAX_PROCESSES
                  /\ rear >= 0 /\ rear <= MAX_PROCESSES

\* The emergency scenario's round-robin run has enqueued past queue[19].
C29_Witness ==
    /\ alg = "rr" /\ pc = "loop"
    /\ RunsOn(EmergencyScenario)
    /\ rear > MAX_PROCESSES

\* The jobs that have arrived by the clock and still have work.
ArrivedUnfinished ==
    {i \in Jobs : temp[i].arrival_time <= current_time
                  /\ temp[i].remaining_time > 0}

\* The ready queue as the loop reads it: the words at front..rear-1.
ReadyQueue ==
    [k \in front..(rear - 1) |-> QueueWordIn(queue, in_queue, build, k)]

\* C30: at the head of the round-robin loop (the dequeue decision) the ready
\* queue holds each arrived unfinished job exactly once and no other job; so
\* the idle branch (front = rear) is taken only when no such job exists.
C30_QueueHoldsArrivedUnfinished ==
    (alg = "rr" /\ pc = "loop") =>
        /\ \A k \in DOMAIN ReadyQueue : ReadyQueue[k] \in ArrivedUnfinished
        /\ \A i \in ArrivedUnfinished : \E k \in DOMAIN ReadyQueue : ReadyQueue[k] = i
        /\ \A k, l \in DOMAIN ReadyQueue : ReadyQueue[k] = ReadyQueue[l] => k = l
        /\ front = rear => ArrivedUnfinished = {}

\* A round-robin loop head with two jobs waiting in the queue.
C30_Witness ==
    /\ alg = "rr" /\ pc = "loop"
    /\ rear - front >= 2
    /\ current_time > 0
    /\ build = "unset"

\* ------------------------------------------------- claims, thread programs
Returned(t) == thread[t] = 0

\* Thread t waits, without a timeout, for a mutex another thread owns.
Blocked(t) ==
    /\ Running(t)
    /\ At(t)[1] = "lock"
    /\ Owner(At(t)[2]) # "free"
    /\ ~TimedWait(program, platform)

\* Some thread has not returned and every such thread is blocked.
DeadlockState ==
    /\ \E t \in Threads(program) : ~Returned(t)
    /\ \A t \in Threads(program) : Returned(t) \/ Blocked(t)

\* Whoever owns medication_inventory_mutex owns patient_record_mutex too.
MedicationInsideRecord ==
    medication_inventory_mutex # "free" =>
        patient_record_mutex = medication_inventory_mutex

AllReturnedUnlocked ==
    /\ \A t \in Threads(program) : Returned(t)
    /\ patient_record_mutex = "free"
    /\ medication_inventory_mutex = "free"

\* C23: in the lock-ordering solution no deadlock state is reachable,
\* medication_inventory_mutex is only ever owned by the thread that owns
\* patient_record_mutex, and under fair scheduling both threads return with
\* both mutexes released.
C23_LockOrderingNoDeadlock ==
    /\ [](program = "lock_ordering" => ~DeadlockState /\ MedicationInsideRecord)
    /\ (program = "lock_ordering") ~> AllReturnedUnlocked

\* The doctor owns both mutexes while the pharmacy waits for the first.
C23_Witness ==
    /\ program = "lock_ordering"
    /\ patient_record_mutex = "doctor"
    /\ medication_inventory_mutex = "doctor"
    /\ Running("pharmacy")
    /\ At("pharmacy") = <<"lock", "patient_record_mutex">>

\* The doctor owns patient_record_mutex and waits for
\* medication_inventory_mutex; the pharmacy owns that one and waits for
\* patient_record_mutex.
CircularWait ==
    /\ patient_record_mutex = "doctor"
    /\ Running("doctor")
    /\ At("doctor") = <<"lock", "medication_inventory_mutex">>
    /\ medication_inventory_mutex = "pharmacy"
    /\ Running("pharmacy")
    /\ At("pharmacy") = <<"lock", "patient_record_mutex">>

\* C24: in the deadlock demonstration the circular wait is reachable
\* (C24_Witness), and from it neither thread takes another step: no step
\* changes where a thread is or who owns a mutex.
C24_CircularWaitIsFinal ==
    [][(program = "deadlock" /\ CircularWait)
        => UNCHANGED <<thread, exit_code, patient_record_mutex,
                       medication_inventory_mutex>>]_vars

\* The circular wait of the deadlock demonstration.
C24_Witness ==
    program = "deadlock" /\ CircularWait /\ DeadlockState

\* The doctor has read the allergy into its local copy and has not yet
\* finished writing the prescription.
BetweenCheckAndUse ==
    /\ Running("doctor")
    /\ At("doctor") \in {<<"work", "decide">>, <<"work", "write">>}

\* C25: in the mutex solution the record's allergy does not change between
\* the doctor's read and the doctor's write of the prescription: from the
\* read until the write is done it equals the doctor's local copy.
C25_NoChangeBetweenCheckAndUse ==
    (program = "mutex_solution" /\ BetweenCheckAndUse)
        => patient.allergy = local_allergy

\* The doctor is about to write the prescription while the nurse waits for
\* the mutex with its update.
C25_Witness ==
    /\ program = "mutex_solution"
    /\ Running("doctor") /\ At("doctor") = <<"work", "write">>
    /\ Running("nurse") /\ At("nurse") = <<"lock", "patient_record_mutex">>
    /\ patient_record_mutex = "doctor"

\* The test of the race demonstration's main: strstr(allergy, "Penicillin")
\* && strstr(prescription, "Penicillin").
InconsistentRecord ==
    MentionsPenicillin(patient.allergy) /\ MentionsPenicillin(patient.prescription)

\* C26: in the mutex solution, once both threads have returned the record is
\* not in the state the race demonstration detects as inconsistent.
C26_NeverInconsistent ==
    (program = "mutex_solution" /\ \A t \in Threads(program) : Returned(t))
        => ~InconsistentRecord

\* Both threads of the mutex solution have returned, the doctor having held
\* the mutex first: a Penicillin allergy and a Penicillin prescription.
C26_Witness ==
    /\ program = "mutex_solution"
    /\ \A t \in Threads(program) : Returned(t)
    /\ patient.allergy = PenicillinAllergy(platform)
    /\ patient.prescription = "Penicillin 500mg"

\* ----------------------------------------- claims, process-cleanup solution
\* Children the parent has forked so far, the critical patient's included.
ForkedChildren ==
    patients_spawned + (IF critical_child \in {"none", "failed"} THEN 0 ELSE 1)

\* The parent has reached the fork for the critical patient.
CriticalForkReached == main_pc \in {"critical_fork", "critical_wait", "exit"}

\* Every child of the loop has been reaped.
AllReaped ==
    /\ active_children = 0
    /\ completed_registrations = patients_spawned
    /\ zombies = 0
    /\ running_children = 0

\* C27 as stated: active_children + completed_registrations equals the
\* number of children forked at every point of the parent's execution, and
\* at the critical patient's fork every child spawned before is reaped.
C27_Original ==
    /\ active_children + completed_registrations = ForkedChildren
    /\ CriticalForkReached => AllReaped

\* C27, amended: active_children + completed_registrations equals the number
\* of children forked by the spawning loop at every point (the critical
\* patient's child is never counted), active_children is the number of loop
\* children not yet reaped, and at the critical patient's fork every child of
\* the loop is reaped.
C27_CountersTrackLoopChildren ==
    /\ active_children + completed_registrations = patients_spawned
    /\ active_children = running_children + zombies
    /\ CriticalForkReached => AllReaped

\* The critical patient's fork is reached after a fork of the loop failed
\* part-way, with children reaped both in a cleanup at a tenth patient and in
\* the final loop.
C27_Witness ==
    /\ main_pc = "critical_fork"
    /\ patients_spawned > CleanupEvery
    /\ patients_spawned < MaxPatients
    /\ completed_registrations = patients_spawned
    /\ active_children = 0

\* ------------------------------------------------ claims, semaphore solution
\* Threads that hold a database connection.
Holders == {i \in Requests : registration[i] = "holding"}

\* The thread created for threads[i] has ended.
Ended(i) == registration[i] \in {"done", "terminated"}

\* C28: while the process runs at most MAX_DB_CONNECTIONS threads hold a
\* connection and the free slots plus the holders make MAX_DB_CONNECTIONS;
\* no thread acquires or releases more than once, and a thread that acquired
\* a slot and has ended has released it.
C28_SlotsBoundedAndReleased ==
    /\ main_pc \in {"spawn", "wait", "cleanup"} =>
          /\ Cardinality(Holders) <= MaxConnections
          /\ db_connection_semaphore + Cardinality(Holders) = MaxConnections
    /\ \A i \in Requests :
          /\ released[i] <= acquired[i]
          /\ acquired[i] <= 1
          /\ Ended(i) => released[i] = acquired[i]

\* Every thread was created, the pool was full with a thread waiting behind
\* it, and main has returned while a thread held a connection it had not
\* released.
C28_Witness ==
    /\ main_pc = "exited"
    /\ \A i \in Requests : registration[i] # "failed"
    /\ \E i \in Requests :
          registration[i] = "terminated" /\ acquired[i] = 1 /\ released[i] = 0
    /\ \E i \in Requests : acquired[i] = 1 /\ released[i] = 1

\* ------------------------------------------------ claims, scheduler, continued
\* The larger of two integers.
Max(a, b) == IF a > b THEN a ELSE b

\* completion_time of the job before job i in the registry, 0 for the first.
PreviousCompletion(tmp, i) == IF i = 0 THEN 0 ELSE tmp[i - 1].completion_time

\* C31: in FCFS every job i dispatched so far started at
\* max(arrival_time of i, completion_time of job i - 1), 0 standing for the
\* previous completion of the first job, and completed at start_time +
\* burst_time; the clock is the completion of the last job dispatched, so it
\* never moved back, and response_time >= 0, sorted registry or not.
C31_FcfsStartTimes ==
    (alg = "fcfs" /\ pc \in {"loop", "done"}) =>
        /\ current_time = PreviousCompletion(temp, fcfs_i)
        /\ \A i \in 0..(fcfs_i - 1) :
              /\ temp[i].start_time =
                     Max(temp[i].arrival_time, PreviousCompletion(temp, i))
              /\ temp[i].completion_time =
                     temp[i].start_time + temp[i].burst_time
              /\ temp[i].start_time >= PreviousCompletion(temp, i)
              /\ temp[i].response_time >= 0
              /\ temp[i].response_time =
                     temp[i].start_time - temp[i].arrival_time

\* FCFS has returned from a registry that is not sorted by arrival: one job
\* started at its arrival after an idle gap, and a job that had arrived
\* earlier, but stands later in the registry, started at the completion of
\* the job before it.
C31_Witness ==
    /\ alg = "fcfs" /\ pc = "done" /\ ~SortedByArrival
    /\ \E i \in Jobs : /\ proc[i].start_time = proc[i].arrival_time
                       /\ proc[i].start_time > PreviousCompletion(proc, i)
    /\ \E i \in Jobs : /\ i > 0
                       /\ proc[i].arrival_time < proc[i - 1].arrival_time
                       /\ proc[i].start_time = proc[i - 1].completion_time
                       /\ proc[i].response_time > 0

\* The registries of init_emergency_scenario, init_normal_scenario and
\* init_best_scenario.
ShippedScenarios == {EmergencyScenario, NormalScenario, BestScenario}

\* C32: when fcfs_scheduling has returned from one of the three shipped
\* scenarios, no job started before a job with a strictly earlier
\* arrival_time: start_time is non-decreasing in arrival_time.
C32_ScenariosFirstComeFirstServed ==
    (alg = "fcfs" /\ pc = "done" /\ processes \in ShippedScenarios) =>
        \A a, b \in Jobs :
            proc[a].arrival_time < proc[b].arrival_time =>
                proc[a].start_time <= proc[b].start_time

\* FCFS has returned from the emergency scenario, where the job that arrived
\* at 8 (index 7) started after the job that arrived at 15 (index 6).
C32_Witness ==
    /\ alg = "fcfs" /\ pc = "done" /\ processes = EmergencyScenario
    /\ proc[7].arrival_time < proc[6].arrival_time
    /\ proc[7].start_time > proc[6].start_time

\* Events of the given type (0 Start, 1 Preempt, 2 Complete) logged for job i.
EventsOf(ev, i, type) ==
    Cardinality({k \in 1..Len(ev) : ev[k][2] = i /\ ev[k][3] = type})

\* Events of the given type in the trace.
CountType(ev, type) == Cardinality({k \in 1..Len(ev) : ev[k][3] = type})

\* What C33 asks of one step of the preemptive scheduler.
SwitchesCounted ==
    /\ context_switches' = CountType(events', 0)
    /\ \A i \in Jobs :
          EventsOf(events', i, 0) =
              EventsOf(events', i, 1) + EventsOf(events', i, 2)
                  + (IF is_running' = i THEN 1 ELSE 0)
    /\ \A j \in Jobs :
          (is_running = j /\ is_running' # j /\ temp'[j].remaining_time > 0) =>
              \E k \in (Len(events) + 1)..Len(events') :
                  events'[k] = <<current_time, j, 1>>
    /\ pc' = "done" =>
          /\ m'.context_switches = CountType(events', 0)
          /\ m'.context_switches = n + CountType(events', 1)

\* C33: in the preemptive scheduler context_switches is the number of Start
\* events logged; every Start of a job is matched by its Preempt or its
\* Complete unless the job is the one running, so a job that has completed
\* was started once and once more for each of its Preempt events and the
\* count returned is n plus the number of Preempt events; and a job that
\* stops running with work left has a Preempt logged for it at that tick.
C33_SwitchesAreStarts ==
    [][(alg = "priority" /\ pc = "loop") => SwitchesCounted]_vars

\* The preemptive scheduler has returned after two or more preemptions, one
\* job having been preempted and started again.
C33_Witness ==
    /\ alg = "priority" /\ pc = "done"
    /\ CountType(events, 1) >= 2
    /\ m.context_switches = n + CountType(events, 1)
    /\ \E i \in Jobs : EventsOf(events, i, 0) >= 2

\* The event types logged for job i, in log order.
RECURSIVE JobEvents(_, _)
JobEvents(ev, i) ==
    IF ev = << >> THEN << >>
    ELSE LET rest == JobEvents(SubSeq(ev, 1, Len(ev) - 1), i)
             last == ev[Len(ev)]
         IN IF last[2] = i THEN Append(rest, last[3]) ELSE rest

\* Job i's events alternate: a Start at every odd place, a Preempt or a
\* Complete at every even place, a Complete at the last place only.
Alternates(s) ==
    \A k \in 1..Len(s) :
        /\ k % 2 = 1 => s[k] = 0
        /\ k % 2 = 0 => s[k] \in {1, 2}
        /\ s[k] = 2 => k = Len(s)

\* Jobs with a Start in ev that no later Preempt or Complete matches.
OpenStarts(ev) == {i \in Jobs : Len(JobEvents(ev, i)) % 2 = 1}

\* C34: in the trace of the preemptive scheduler, whatever its length so far,
\* the events of each job alternate Start, then Preempt or Complete, beginning
\* with a Start; nothing follows a job's Complete; at most one job has a
\* Start not yet matched, and in the trace as it stands that job is the one
\* running; when the scheduler has returned every job's events end with its
\* one Complete.
C34_EventsAlternate ==
    (pc # "call" \/ alg # "priority") =>
        /\ \A len \in 0..Len(events) :
              LET ev == SubSeq(events, 1, len)
              IN /\ \A i \in Jobs : Alternates(JobEvents(ev, i))
                 /\ Cardinality(OpenStarts(ev)) <= 1
        /\ (alg = "priority" /\ pc = "loop") =>
              OpenStarts(events) = {is_running} \ {-1}
        /\ (alg # "priority" \/ pc = "done") =>
              \A i \in Jobs :
                  LET s == JobEvents(events, i)
                  IN /\ Len(s) >= 2
                     /\ s[Len(s)] = 2
                     /\ EventsOf(events, i, 2) = 1

\* The preemptive scheduler has returned; one job was started, preempted,
\* started again and completed, another ran from its Start to its Complete.
C34_Witness ==
    /\ alg = "priority" /\ pc = "done"
    /\ \E i \in Jobs : JobEvents(events, i) = <<0, 1, 0, 2>>
    /\ \E i \in Jobs : JobEvents(events, i) = <<0, 2>>

\* C35: priority_scheduling has logged at most n Complete, n - 1 Preempt and
\* 2n - 1 Start events, at most 4n - 2 in all, for a registry of n >= 1 jobs
\* (n Complete once it has returned), and 4n - 2 stays within the rows of the
\* events array for every n up to MAX_PROCESSES.
C35_EventsBounded ==
    /\ 4 * MAX_PROCESSES - 2 <= EventRows
    /\ (n >= 1 /\ n <= MAX_PROCESSES /\ (pc # "call" \/ alg # "priority")) =>
          /\ CountType(events, 2) <= n
          /\ CountType(events, 1) <= n - 1
          /\ CountType(events, 0) <= 2 * n - 1
          /\ Len(events) <= 4 * n - 2
          /\ Len(events) <= EventRows
          /\ (alg # "priority" \/ pc = "done") => CountType(events, 2) = n

\* The preemptive scheduler has returned with the most events n jobs can
\* give: every job but one preempted another.
C35_Witness ==
    /\ alg = "priority" /\ pc = "done" /\ n >= 2
    /\ CountType(events, 1) = n - 1
    /\ Len(events) = 4 * n - 2

\* The total_time algorithm a returned in this scenario block: the largest
\* completion_time of the array it was called on.
TotalTimeOf(a) == LastCompletion(p[a], 0)

\* C36: when the last of the four algorithms has returned, priority, SJF and
\* round robin have returned the same total_time, and FCFS that total_time
\* too if the registry is sorted by arrival_time.
C36_SameTotalTime ==
    (alg = "rr" /\ pc = "done") =>
        /\ m.total_time = TotalTimeOf("rr")
        /\ TotalTimeOf("priority") = TotalTimeOf("sjf")
        /\ TotalTimeOf("priority") = TotalTimeOf("rr")
        /\ SortedByArrival => TotalTimeOf("fcfs") = TotalTimeOf("priority")

\* The four algorithms have returned from the emergency scenario and round
\* robin's total_time is not the one the preemptive scheduler returned.
C36_Witness ==
    /\ alg = "rr" /\ pc = "done" /\ processes = EmergencyScenario
    /\ TotalTimeOf("priority") = TotalTimeOf("sjf")
    /\ m.total_time # TotalTimeOf("priority")

\* C37: when an algorithm has returned, every job has
\* 0 <= response_time <= waiting_time, and after FCFS and SJF, which run a
\* job in one piece, response_time = waiting_time.
C37_ResponseWithinWaiting ==
    pc = "done" =>
        \A i \in Jobs :
            /\ 0 <= proc[i].response_time
            /\ proc[i].response_time <= proc[i].waiting_time
            /\ alg \in {"fcfs", "sjf"} =>
                  proc[i].response_time = proc[i].waiting_time

\* Round robin has returned from the emergency scenario with a job whose
\* response_time is above its waiting_time.
C37_Witness ==
    /\ alg = "rr" /\ pc = "done" /\ processes = EmergencyScenario
    /\ \E i \in Jobs : proc[i].response_time > proc[i].waiting_time

\* Time units the processor has run jobs 0..i-1 in this call.
RECURSIVE BusyTime(_)
BusyTime(i) == IF i <= 0 THEN 0 ELSE executed[i - 1] + BusyTime(i - 1)

\* C38: when an algorithm has returned from n >= 1 jobs, every job has
\* completion_time > 0 and calculate_metrics has counted all n (the numerator
\* of throughput), the bursts it summed are at most total_time, so
\* cpu_utilization = total_burst * 100 / total_time is at most 100, and it is
\* 100 when no tick of the run was idle.
C38_UtilizationAtMostHundred ==
    (pc = "done" /\ n >= 1) =>
        /\ \A i \in Jobs : proc[i].completion_time > 0
        /\ m.throughput = <<n, m.total_time>>
        /\ m.cpu_utilization[2] = m.total_time
        /\ m.cpu_utilization[1] <= 100 * m.cpu_utilization[2]
        /\ BusyTime(n) = m.total_time =>
              m.cpu_utilization[1] = 100 * m.cpu_utilization[2]

\* Round robin has returned from the emergency scenario with a job that has
\* no completion_time, which calculate_metrics has left out of its count.
C38_Witness ==
    /\ alg = "rr" /\ pc = "done" /\ processes = EmergencyScenario
    /\ \E i \in Jobs : proc[i].completion_time = 0
    /\ m.throughput[1] < n

\* -------------------------------------------- claims, race demonstration
\* The doctor of the race demonstration is about to write the prescription
\* from a local copy read before the nurse's update: the copy says no
\* allergy, the record a Penicillin allergy.
StaleCopyBeforeUse ==
    /\ program = "race_condition"
    /\ Running("doctor") /\ At("doctor") = <<"work", "write">>
    /\ local_allergy = NoAllergy(platform)
    /\ patient.allergy = PenicillinAllergy(platform)

\* C39: in the race demonstration, once the nurse has updated the allergy
\* between the doctor's read and the doctor's write, the run ends with a
\* Penicillin allergy recorded and Penicillin prescribed, the state main
\* tests for.
C39_StaleCopyEndsInconsistent ==
    [](StaleCopyBeforeUse =>
          []((\A t \in Threads(program) : Returned(t)) =>
                 /\ InconsistentRecord
                 /\ patient.prescription = "Penicillin 500mg"))

\* The nurse of the race demonstration has made its update and returned
\* after the doctor's read and before the doctor's write.
C39_Witness ==
    /\ StaleCopyBeforeUse
    /\ Returned("nurse")
    /\ ~MentionsPenicillin(patient.prescription)

====
